---- MODULE Spec2Model ----
(***************************************************************************)
(* A model of the browser Arduino sketch editor: the local-storage wrapper  *)
(* (utils/storage), the App component's state, handlers, effects and timers *)
(* (App.tsx), the sidebar's expansion state (Sidebar), the heuristic        *)
(* analyser (utils/arduinoCompiler), the fix suggester (utils/aiHelper) and *)
(* the Web Serial wrapper (utils/serialUpload).                             *)
(*                                                                         *)
(* Texts (sketch contents, editor code) are sequences of one-character      *)
(* strings, so that split/join/trim/includes are computed on characters.    *)
(* Object identity of JavaScript objects created by crypto.randomUUID or by *)
(* an object literal is an integer drawn from a counter.                    *)
(***************************************************************************)
EXTENDS Integers, Sequences, FiniteSets, TLC

VARIABLES
    \* ---- localStorage (utils/storage) ----
    lsProjects,        \* value under PROJECTS_KEY, parsed: sequence of projects
    lsCurrent,         \* value under CURRENT_PROJECT_KEY, 0 when the key is absent
    lsCorrupt,         \* TRUE when the text under PROJECTS_KEY is not valid JSON
    nextId,            \* next value crypto.randomUUID() hands out
    \* ---- App component (App.tsx) ----
    mounted,           \* the mount effect has run and the tree is alive
    projects,          \* useState projects
    currentProject,    \* useState currentProject (NoProject for null)
    currentSketch,     \* useState currentSketch (NoSketch for null)
    code,              \* useState code
    autoSaveTimer,     \* TRUE while the auto-save timeout is pending
    expandedProjects,  \* Sidebar useState expandedProjects
    imports,           \* pending handleImportSketch continuations
    escaped,           \* an exception left a handler, effect or promise uncaught
    \* ---- App component, editing side ----
    errors,            \* useState errors
    realTimeErrors,    \* useState realTimeErrors
    analysisTimer,     \* the code the pending timeouts of the analysis effect close over
    realTimeTimer,     \* the values the pending timeouts of CodeEditor's real-time effect close over
    compiles,          \* codes captured by the handleCompile calls in flight
    isCompiling,       \* useState isCompiling
    aiSuggestions,     \* useState aiSuggestions
    showAIPanel,       \* useState showAIPanel
    isApplyingFix,     \* useRef isApplyingFix
    fixTimers,         \* deferred steps scheduled by handleApplyFix (100 ms)
    closeTimers,       \* number of pending panel-closing timeouts (500 ms)
    appliedSuggestions,   \* AIPanel useState appliedSuggestions (list positions)
    suggestionsMade,      \* AIFixSuggestion objects handleAutoFix has made so far
    showAIAssistant,      \* useState showAIAssistant
    assistantSuggestions, \* AIAssistant useState suggestions
    assistantTimers,      \* codes captured by the AIAssistant analyses in flight
    codeSettled,       \* history: code has been the same for the analysis delay
    ranSince,          \* history: verify or compile set errors since code changed
    \* ---- SerialUploader held by the App (utils/serialUpload) ----
    serialSupported,   \* 'serial' in navigator
    port,              \* field port: "null", or the port it holds, "closed" or "open"
    reader,            \* field reader: "null" or "reader"
    writer,            \* field writer: "null" or "writer"
    serialLast,        \* the latest call of a SerialUploader method and its outcome
    \* ---- a call of AIHelper.analyzeAndFix (utils/aiHelper) ----
    aiCall,            \* its arguments and, once it has settled, its result
    \* ---- history ----
    last               \* name of the operation performed by the latest step

storageVars == <<lsProjects, lsCurrent, lsCorrupt, nextId>>
projVars    == <<mounted, projects, currentProject, currentSketch, code,
                 autoSaveTimer, expandedProjects, imports, escaped>>
editVars    == <<errors, realTimeErrors, analysisTimer, realTimeTimer, compiles,
                 isCompiling, aiSuggestions, showAIPanel, isApplyingFix,
                 fixTimers, closeTimers, appliedSuggestions, suggestionsMade, showAIAssistant,
                 assistantSuggestions, assistantTimers, codeSettled, ranSince>>
utilVars    == <<serialSupported, port, reader, writer, serialLast, aiCall>>
appVars     == <<projVars, editVars, utilVars>>
vars        == <<storageVars, appVars, last>>

----------------------------------------------------------------------------
(* Bounds of the model *)

MaxIds     == 4
MaxImports == 1      \* file imports that may be in flight at once
MaxCompiles == 2     \* compilations that may be in flight at once
MaxFixTimers == 2    \* deferred steps of handleApplyFix that may be pending at once
MaxCloseTimers == 2  \* panel-closing timeouts that may be pending at once
MaxAssistantTimers == 1  \* AIAssistant analyses that may be in flight at once
MaxCodeLen == 13     \* longest text a fix may produce
MaxSuggestions == 4  \* AIFixSuggestion objects handleAutoFix may make in a run
MaxLines == 3        \* lines of a sketch handed to ArduinoCompiler.analyze

----------------------------------------------------------------------------
(* Texts *)

\* content of the sketch createProject puts into a new project
DefaultContent ==
    "void setup() {\n  // put your setup code here, to run once:\n  Serial.begin(9600);\n}\n\n"
    \o "void loop() {\n  // put your main code here, to run repeatedly:\n  \n}"

\* content of the sketch addSketch creates
EmptyContent == ""

\* texts a user may type into the editor, and the text of an imported file
TextA == "x;"
TextB == "{\ny"
UserTexts == { EmptyContent, TextA, TextB }
TypedTexts == { TextA, TextB }
FileTexts == { TextB }

\* names a user may enter in a prompt or carry on an imported file
Names == { "a" }

Ids == 1 .. MaxIds

----------------------------------------------------------------------------
(* Records *)

NoProject == [id |-> 0, name |-> "", sketches |-> << >>]
NoSketch  == [id |-> 0, name |-> "", content |-> ""]

\* value of last before any operation
NoOp == "none"

\* Array.prototype.findIndex, 1-based; 0 when nothing matches
FindIndex(seq, P(_)) ==
    IF \E i \in 1 .. Len(seq) : P(seq[i])
    THEN CHOOSE i \in 1 .. Len(seq) : P(seq[i]) /\ \A j \in 1 .. (i - 1) : ~P(seq[j])
    ELSE 0

\* Array.prototype.filter
Filter(seq, P(_)) == SelectSeq(seq, P)

----------------------------------------------------------------------------
(* utils/storage: the functions, as operators on the stored project list *)

newSketch(id, name, content) == [id |-> id, name |-> name, content |-> content]

\* the project literal createProject builds; pid and sid are the two UUIDs
newProject(name, pid, sid) ==
    [id |-> pid, name |-> name,
     sketches |-> << newSketch(sid, name \o ".ino", DefaultContent) >>]

createProject(ps, name, pid, sid) == Append(ps, newProject(name, pid, sid))

updateProject(ps, id, name) ==
    LET index == FindIndex(ps, LAMBDA p : p.id = id)
    IN  IF index # 0 THEN [ps EXCEPT ![index].name = name] ELSE ps

deleteProject(ps, id) == Filter(ps, LAMBDA p : p.id # id)

\* addSketch throws 'Project not found' when no project has the id
addSketchThrows(ps, projectId) == FindIndex(ps, LAMBDA p : p.id = projectId) = 0

addSketch(ps, projectId, name, sid) ==
    LET i == FindIndex(ps, LAMBDA p : p.id = projectId)
    IN  IF i # 0
        THEN [ps EXCEPT ![i].sketches = Append(@, newSketch(sid, name, EmptyContent))]
        ELSE ps

updateSketchAll(ps, projectId, sketchId, content) ==
    LET i == FindIndex(ps, LAMBDA p : p.id = projectId)
    IN  IF i # 0
        THEN [ps EXCEPT ![i].sketches =
                 [j \in 1 .. Len(@) |-> [@[j] EXCEPT !.content = content]]]
        ELSE ps

updateSketch(ps, projectId, sketchId, content) ==
    LET i == FindIndex(ps, LAMBDA p : p.id = projectId)
    IN  IF i # 0
        THEN LET j == FindIndex(ps[i].sketches, LAMBDA s : s.id = sketchId)
             IN  IF j # 0
                 THEN [ps EXCEPT ![i].sketches[j].content = content]
                 ELSE ps
        ELSE ps

deleteSketchOfAny(ps, projectId, sketchId) ==
    LET i == FindIndex(ps, LAMBDA p : p.id = projectId)
    IN  IF i # 0
        THEN [ps EXCEPT ![i].sketches = Filter(@, LAMBDA s : s.id # sketchId)]
        ELSE ps

deleteSketchWithProject(ps, projectId, sketchId) == Filter(ps, LAMBDA p : p.id # projectId)

deleteSketch(ps, projectId, sketchId) ==
    LET i == FindIndex(ps, LAMBDA p : p.id = projectId)
    IN  IF i # 0 /\ Len(ps[i].sketches) > 1
        THEN [ps EXCEPT ![i].sketches = Filter(@, LAMBDA s : s.id # sketchId)]
        ELSE ps

currentAfterDeleteKept(cur, id) == cur

\* the value deleteProject leaves under CURRENT_PROJECT_KEY
currentAfterDelete(cur, id) == IF cur = id THEN 0 ELSE cur

currentAfterCreateStale(cur, pid) == cur

\* the value createProject leaves under CURRENT_PROJECT_KEY
currentAfterCreate(cur, pid) == pid

----------------------------------------------------------------------------
(* The storage module called directly, with any arguments *)

AppIdle ==
    /\ mounted = FALSE
    /\ projects = << >>
    /\ currentProject = NoProject
    /\ currentSketch = NoSketch
    /\ code = EmptyContent
    /\ autoSaveTimer = FALSE
    /\ expandedProjects = {}
    /\ imports = << >>
    /\ escaped = FALSE
    /\ errors = << >>
    /\ realTimeErrors = << >>
    /\ analysisTimer = << >>
    /\ realTimeTimer = << >>
    /\ compiles = << >>
    /\ isCompiling = FALSE
    /\ aiSuggestions = << >>
    /\ showAIPanel = FALSE
    /\ isApplyingFix = FALSE
    /\ fixTimers = << >>
    /\ closeTimers = 0
    /\ appliedSuggestions = {}
    /\ suggestionsMade = 0
    /\ showAIAssistant = TRUE
    /\ assistantSuggestions = << >>
    /\ assistantTimers = << >>
    /\ codeSettled = FALSE
    /\ ranSince = FALSE

\* new SerialUploader(): no port, no reader, no writer, no call made yet
SerialIdle ==
    /\ port = "null"
    /\ reader = "null"
    /\ writer = "null"
    /\ serialLast = [op |-> "none", text |-> "", failure |-> "none",
                     returned |-> "none", reports |-> FALSE, progress |-> << >>,
                     writes |-> << >>]

NoFixes == [rejected |-> FALSE, value |-> << >>]

\* none of the suggestions of the call has been applied to its code
NotApplied == [index |-> 0, newCode |-> ""]

\* no call of AIHelper.analyzeAndFix is being looked at
NoCall == aiCall = [text |-> "", errs |-> << >>, fault |-> "none",
                    settled |-> FALSE, result |-> NoFixes, applied |-> NotApplied]

UtilIdle == serialSupported = TRUE /\ SerialIdle /\ NoCall

StorageEmpty ==
    /\ lsProjects = << >>
    /\ lsCurrent = 0
    /\ nextId = 1

InitStorage ==
    /\ StorageEmpty
    /\ lsCorrupt = FALSE
    /\ AppIdle
    /\ UtilIdle
    /\ last = NoOp

StCreateProject(name) ==
    /\ nextId + 1 <= MaxIds
    /\ lsProjects' = createProject(lsProjects, name, nextId, nextId + 1)
    /\ lsCurrent' = currentAfterCreate(lsCurrent, nextId)
    /\ nextId' = nextId + 2
    /\ UNCHANGED <<lsCorrupt, appVars, last>>

StUpdateProject(id, name) ==
    /\ lsProjects' = updateProject(lsProjects, id, name)
    /\ UNCHANGED <<lsCurrent, lsCorrupt, nextId, appVars, last>>

StDeleteProject(id) ==
    /\ lsProjects' = deleteProject(lsProjects, id)
    /\ lsCurrent' = currentAfterDelete(lsCurrent, id)
    /\ UNCHANGED <<lsCorrupt, nextId, appVars, last>>

StSetCurrentProjectId(id) ==
    /\ lsCurrent' = id
    /\ UNCHANGED <<lsProjects, lsCorrupt, nextId, appVars, last>>

StAddSketch(projectId, name) ==
    /\ nextId <= MaxIds
    /\ IF addSketchThrows(lsProjects, projectId)
       THEN UNCHANGED <<lsProjects, nextId>>    \* the exception goes to the caller
       ELSE /\ lsProjects' = addSketch(lsProjects, projectId, name, nextId)
            /\ nextId' = nextId + 1
    /\ UNCHANGED <<lsCurrent, lsCorrupt, appVars, last>>

StUpdateSketch(projectId, sketchId, content) ==
    /\ lsProjects' = updateSketch(lsProjects, projectId, sketchId, content)
    /\ UNCHANGED <<lsCurrent, lsCorrupt, nextId, appVars, last>>

StDeleteSketch(projectId, sketchId) ==
    /\ lsProjects' = deleteSketch(lsProjects, projectId, sketchId)
    /\ UNCHANGED <<lsCurrent, lsCorrupt, nextId, appVars, last>>

\* identifiers a caller may pass: those of the stored projects or sketches, and
\* one that is not stored
AllSketchIds(ps) == UNION { { ps[i].sketches[j].id : j \in 1 .. Len(ps[i].sketches) } :
                            i \in 1 .. Len(ps) }
ArgPids == { lsProjects[i].id : i \in 1 .. Len(lsProjects) } \cup { nextId }
ArgSids == AllSketchIds(lsProjects) \cup { nextId }

NextStorage ==
    \/ \E name \in Names : StCreateProject(name)
    \/ \E id \in ArgPids, name \in Names : StUpdateProject(id, name)
    \/ \E id \in ArgPids : StDeleteProject(id)
    \/ \E id \in ArgPids : StSetCurrentProjectId(id)
    \/ \E id \in ArgPids, name \in Names : StAddSketch(id, name)
    \/ \E pid \in ArgPids, sid \in ArgSids, c \in UserTexts : StUpdateSketch(pid, sid, c)
    \/ \E pid \in ArgPids, sid \in ArgSids : StDeleteSketch(pid, sid)

SpecStorage == InitStorage /\ [][NextStorage]_vars

----------------------------------------------------------------------------
(* Claims about the storage module *)

ProjectIds(ps) == { ps[i].id : i \in 1 .. Len(ps) }
SketchIds(p)   == { p.sketches[j].id : j \in 1 .. Len(p.sketches) }

\* what a call of updateSketch(pid, sid, c) may change in the stored list
C1_UpdateSketchStep(pid, sid, c) ==
    LET ps == lsProjects
        qs == lsProjects'
        hit == \E i \in 1 .. Len(ps) :
                   ps[i].id = pid /\ sid \in SketchIds(ps[i])
    IN  IF hit
        THEN /\ Len(qs) = Len(ps)
             /\ \A i \in 1 .. Len(ps) :
                  /\ qs[i].id = ps[i].id
                  /\ qs[i].name = ps[i].name
                  /\ Len(qs[i].sketches) = Len(ps[i].sketches)
                  /\ \A j \in 1 .. Len(ps[i].sketches) :
                       /\ qs[i].sketches[j].id = ps[i].sketches[j].id
                       /\ qs[i].sketches[j].name = ps[i].sketches[j].name
                       /\ qs[i].sketches[j].content =
                            IF ps[i].id = pid /\ ps[i].sketches[j].id = sid
                            THEN c
                            ELSE ps[i].sketches[j].content
        ELSE qs = ps

\* C1: storage.updateSketch(p.id, s.id, c) on a stored project p and a sketch s
\* of p leaves s with content c and changes nothing else: every other sketch's
\* content, every sketch's id and name and every other project stay as they
\* were; when p or s does not exist the stored list is unchanged.
C1_UpdateSketch ==
    [][(nextId' = nextId /\ lsCurrent' = lsCurrent /\ lsProjects' # lsProjects) =>
          \A pid \in ArgPids, sid \in ArgSids, c \in UserTexts :
              StUpdateSketch(pid, sid, c) => C1_UpdateSketchStep(pid, sid, c)]_vars

\* updateSketch has written a text into one sketch of a project whose other
\* sketch still holds the content it was created with
C1_Witness ==
    /\ \E i \in 1 .. Len(lsProjects) :
         /\ Len(lsProjects[i].sketches) = 2
         /\ lsProjects[i].sketches[1].content = TextA
         /\ lsProjects[i].sketches[2].content = EmptyContent

\* what a call of createProject(name) does to the stored list and current id
C2_CreateProjectStep(name) ==
    LET ps == lsProjects
        qs == lsProjects'
    IN  /\ Len(qs) = Len(ps) + 1
        /\ SubSeq(qs, 1, Len(ps)) = ps
        /\ Len(qs[Len(qs)].sketches) = 1
        /\ qs[Len(qs)].sketches[1].name = name \o ".ino"
        /\ qs[Len(qs)].id \notin ProjectIds(ps)
        /\ lsCurrent' = qs[Len(qs)].id

\* C2: storage.createProject(name) appends exactly one project to the stored
\* list, leaving the earlier projects unchanged and in order; the new project
\* has exactly one sketch, named name + '.ino'; the stored current-project id
\* is the new project's id.
C2_CreateProject ==
    [][\A name \in Names : StCreateProject(name) => C2_CreateProjectStep(name)]_vars

\* a createProject performed while another project was stored
C2_Witness ==
    /\ Len(lsProjects) = 2
    /\ lsCurrent = lsProjects[2].id
    /\ lsProjects[2].sketches[1].name = "a.ino"

\* C29: after any sequence of createProject, addSketch, updateSketch,
\* deleteSketch and deleteProject every stored project has at least one
\* sketch; deleteSketch on a project's only sketch leaves the stored list
\* unchanged.
C29_NoProjectWithoutSketch ==
    /\ [](\A i \in 1 .. Len(lsProjects) : Len(lsProjects[i].sketches) >= 1)
    /\ [][\A pid \in ArgPids, sid \in ArgSids :
            (/\ StDeleteSketch(pid, sid)
             /\ \E i \in 1 .. Len(lsProjects) :
                   lsProjects[i].id = pid /\ Len(lsProjects[i].sketches) = 1)
                => lsProjects' = lsProjects]_vars

\* a project is left with one sketch, an added one: deleteSketch has removed
\* the sketch the project was created with
C29_Witness ==
    \E i \in 1 .. Len(lsProjects) :
        /\ Len(lsProjects[i].sketches) = 1
        /\ lsProjects[i].sketches[1].id # lsProjects[i].id + 1

----------------------------------------------------------------------------
(* JavaScript strings.  A text is a TLA+ string; positions handed to and    *)
(* returned by these operators are the 0-based positions of JavaScript.     *)

\* the characters String.prototype.trim removes and \s matches
WhiteSpace == { " ", "\t", "\n", "\r", "\f" }
Digits     == { "0", "1", "2", "3", "4", "5", "6", "7", "8", "9" }
Letters    ==
    { "a", "b", "c", "d", "e", "f", "g", "h", "i", "j", "k", "l", "m",
      "n", "o", "p", "q", "r", "s", "t", "u", "v", "w", "x", "y", "z",
      "A", "B", "C", "D", "E", "F", "G", "H", "I", "J", "K", "L", "M",
      "N", "O", "P", "Q", "R", "S", "T", "U", "V", "W", "X", "Y", "Z" }
\* the characters \w matches
WordChars  == Letters \cup Digits \cup { "_" }

\* the grave accent: a TLA+ string cannot hold the character itself
Grave == "^"

\* the text 'Expected `;`' of the error messages
ExpectedSemicolon == "Expected " \o Grave \o ";" \o Grave

\* s[i] for a 0-based i inside the string
charAt(s, i) == SubSeq(s, i + 1, i + 1)

\* s.substring(a, b) for 0 <= a <= b
substring(s, a, b) == SubSeq(s, a + 1, IF b > Len(s) THEN Len(s) ELSE b)

\* s.indexOf(p, from): the first position >= from where p occurs, -1 if none
indexOfFrom(s, p, from) ==
    LET hits == { i \in from..(Len(s) - Len(p)) : substring(s, i, i + Len(p)) = p }
    IN  IF hits = {} THEN -1 ELSE CHOOSE i \in hits : \A j \in hits : i <= j

indexOf(s, p) == indexOfFrom(s, p, 0)

\* s.lastIndexOf(p)
lastIndexOf(s, p) ==
    LET hits == { i \in 0..(Len(s) - Len(p)) : substring(s, i, i + Len(p)) = p }
    IN  IF hits = {} THEN -1 ELSE CHOOSE i \in hits : \A j \in hits : i >= j

includes(s, p) == indexOf(s, p) # -1

startsWith(s, p) == Len(p) <= Len(s) /\ substring(s, 0, Len(p)) = p

endsWith(s, p) == Len(p) <= Len(s) /\ substring(s, Len(s) - Len(p), Len(s)) = p

\* s.trim()
trim(s) ==
    LET inked == { i \in 0..(Len(s) - 1) : charAt(s, i) \notin WhiteSpace }
    IN  IF inked = {} THEN ""
        ELSE substring(s, CHOOSE i \in inked : \A j \in inked : i <= j,
                          (CHOOSE i \in inked : \A j \in inked : i >= j) + 1)

\* s.split(sep) for a separator of one character
RECURSIVE split(_, _)
split(s, sep) ==
    LET i == indexOf(s, sep)
    IN  IF i = -1 THEN << s >>
        ELSE << substring(s, 0, i) >> \o split(substring(s, i + 1, Len(s)), sep)

\* parts.join(sep)
RECURSIVE join(_, _)
join(parts, sep) ==
    IF Len(parts) = 0 THEN ""
    ELSE IF Len(parts) = 1 THEN parts[1]
    ELSE parts[1] \o sep \o join(Tail(parts), sep)

\* ch.repeat(n)
RECURSIVE repeat(_, _)
repeat(ch, n) == IF n <= 0 THEN "" ELSE ch \o repeat(ch, n - 1)

\* (s.match(/ch/g) || []).length for a pattern of one character
countMatches(s, ch) == Cardinality({ i \in 0..(Len(s) - 1) : charAt(s, i) = ch })

\* s.replace(p, r) with a string pattern: the first occurrence only
replace(s, p, r) ==
    LET i == indexOf(s, p)
    IN  IF i = -1 THEN s
        ELSE substring(s, 0, i) \o r \o substring(s, i + Len(p), Len(s))

\* the whitespace a line starts with: line.match(/^\s*/)[0]
RECURSIVE indentation(_)
indentation(s) ==
    IF Len(s) > 0 /\ charAt(s, 0) \in WhiteSpace
    THEN charAt(s, 0) \o indentation(substring(s, 1, Len(s)))
    ELSE ""
----------------------------------------------------------------------------
(* Regular expressions.  The expressions of the sources are sequences of    *)
(* items, each a class of characters taken once, one or more times, or any  *)
(* number of times; no item can match the character the next item must      *)
(* start with, so the longest run of every item is the only match there is  *)
(* and matching needs no backtracking.                                      *)

One(set)    == [set |-> set, neg |-> FALSE, min |-> 1, many |-> FALSE]   \* x
Plus(set)    == [set |-> set, neg |-> FALSE, min |-> 1, many |-> TRUE]    \* x+
Star(set)    == [set |-> set, neg |-> FALSE, min |-> 0, many |-> TRUE]    \* x, any number of times
StarBut(set) == [set |-> set, neg |-> TRUE,  min |-> 0, many |-> TRUE]    \* [^x]*

\* the items of a literal text
RECURSIVE Lit(_)
Lit(str) == IF Len(str) = 0 THEN << >>
            ELSE << One({ charAt(str, 0) }) >> \o Lit(substring(str, 1, Len(str)))

InClass(ch, item) == (ch \in item.set) # item.neg

\* the position behind the longest run of characters of the item from i on
RECURSIVE runEnd(_, _, _)
runEnd(s, i, item) ==
    IF i < Len(s) /\ InClass(charAt(s, i), item) THEN runEnd(s, i + 1, item) ELSE i

\* the match of the items of pat at position i: whether there is one, and
\* the position behind each item
RECURSIVE matchFrom(_, _, _)
matchFrom(s, i, pat) ==
    IF Len(pat) = 0 THEN [ok |-> TRUE, ends |-> << >>]
    ELSE LET item == Head(pat)
             j    == IF item.many THEN runEnd(s, i, item)
                     ELSE IF i < Len(s) /\ InClass(charAt(s, i), item) THEN i + 1 ELSE i
         IN  IF j - i < item.min THEN [ok |-> FALSE, ends |-> << >>]
             ELSE LET rest == matchFrom(s, j, Tail(pat))
                  IN  [ok |-> rest.ok, ends |-> << j >> \o rest.ends]

\* the leftmost position at which pat matches, -1 if it matches nowhere
searchFrom(s, pat) ==
    LET hits == { i \in 0..Len(s) : matchFrom(s, i, pat).ok }
    IN  IF hits = {} THEN -1 ELSE CHOOSE i \in hits : \A j \in hits : i <= j

\* /^pat$/.test(s)
matchesWhole(s, pat) ==
    LET m == matchFrom(s, 0, pat) IN m.ok /\ m.ends[Len(pat)] = Len(s)
----------------------------------------------------------------------------
(* utils/arduinoCompiler.ts: ArduinoCompiler.analyze *)

\* a CompilationError
Err(line, column, message, severity) ==
    [line |-> line, column |-> column, message |-> message, severity |-> severity]

\* the list holding e when cond holds, the empty list otherwise
When(cond, e) == IF cond THEN << e >> ELSE << >>

TypeWords == { "void", "int", "float", "char", "bool", "String" }

\* /^(kw)\s+(\w+)\s*\([^)]*\)\s*[;{]/ for one alternative kw of the first group
declarationPattern(kw) ==
    Lit(kw) \o << Plus(WhiteSpace), Plus(WordChars), Star(WhiteSpace), One({ "(" }),
                  StarBut({ ")" }), One({ ")" }), Star(WhiteSpace), One({ ";", "{" }) >>

\* /void\s+(\w+)\s*\([^)]*\)/
voidFunctionPattern ==
    Lit("void") \o << Plus(WhiteSpace), Plus(WordChars), Star(WhiteSpace), One({ "(" }),
                      StarBut({ ")" }), One({ ")" }) >>

\* /^void\s+\w+\s*\([^)]*\)\s*;$/
voidDeclarationPattern ==
    voidFunctionPattern \o << Star(WhiteSpace), One({ ";" }) >>

\* /^[a-zA-Z_][a-zA-Z0-9_]*$/
identifierPattern == << One(Letters \cup { "_" }), Star(WordChars) >>

\* the table misspelledArduinoFunctions (own properties only)
misspelledArduinoFunctions ==
    [lop |-> "loop", loo |-> "loop", looop |-> "loop",
     setu |-> "setup", setpu |-> "setup", setp |-> "setup"]

scanBracesCounting(line, lineNum, st) ==
    [braceCount |-> st.braceCount + countMatches(line, "{") - countMatches(line, "}"),
     unclosedBraces |-> st.unclosedBraces]

scanBracesOpening(line, lineNum, st) ==
    [braceCount |-> st.braceCount + countMatches(line, "{"),
     unclosedBraces |-> st.unclosedBraces]

\* the loop over the characters of a line: st = [braceCount, unclosedBraces]
RECURSIVE scanBraces(_, _, _)
scanBraces(line, lineNum, st) ==
    IF Len(line) = 0 THEN st
    ELSE LET ch  == charAt(line, 0)
             ub  == st.unclosedBraces
             st1 == IF ch = "{"
                    THEN [braceCount |-> st.braceCount + 1,
                          unclosedBraces |-> Append(ub, lineNum)]
                    ELSE IF ch = "}"
                    THEN [braceCount |-> st.braceCount - 1,
                          unclosedBraces |-> SubSeq(ub, 1, Len(ub) - 1)]
                    ELSE st
         IN  scanBraces(substring(line, 1, Len(line)), lineNum, st1)

\* the name declared by a line that matches the declaration expression, ""
\* when the line does not match it
declaredFunction(trimmed) ==
    LET kws == { kw \in TypeWords : matchFrom(trimmed, 0, declarationPattern(kw)).ok }
    IN  IF kws = {} THEN ""
        ELSE LET kw == CHOOSE k \in kws : TRUE
                 m  == matchFrom(trimmed, 0, declarationPattern(kw))
             IN  substring(trimmed, m.ends[Len(kw) + 1], m.ends[Len(kw) + 2])

\* the check for duplicate and misspelled function declarations
declarationErrors(trimmed, lineNum, decls) ==
    LET funcName == declaredFunction(trimmed)
    IN  IF funcName = "" THEN << >>
        ELSE IF funcName \in DOMAIN misspelledArduinoFunctions
        THEN << Err(lineNum, 0,
                    "COMPILATION ERROR: Function '" \o funcName
                    \o "' appears to be misspelled. Did you mean '"
                    \o misspelledArduinoFunctions[funcName] \o "'?", "error") >>
        ELSE IF funcName \in decls
        THEN << Err(lineNum, 0,
                    "COMPILATION ERROR: Redefinition of function '" \o funcName
                    \o "'. Function already declared.", "error") >>
        ELSE << >>

\* functionDeclarations after the line
declarationsAfter(trimmed, decls) ==
    LET funcName == declaredFunction(trimmed)
    IN  IF funcName # "" /\ funcName \notin DOMAIN misspelledArduinoFunctions
        THEN decls \cup { funcName } ELSE decls

\* the check for invalid function names and declaration syntax
functionNameErrors(trimmed, lineNum) ==
    IF ~(includes(trimmed, "void ") /\ includes(trimmed, "(") /\ includes(trimmed, ")"))
    THEN << >>
    ELSE LET at       == searchFrom(trimmed, voidFunctionPattern)
             m        == matchFrom(trimmed, at, voidFunctionPattern)
             funcName == substring(trimmed, m.ends[5], m.ends[6])
         IN  (IF at = -1 THEN << >>
              ELSE When(Len(funcName) <= 3 /\ funcName \notin { "setup", "loop" },
                        Err(lineNum, 0,
                            "WARNING: Function name '" \o funcName
                            \o "' is too short. Use descriptive names (e.g., 'blinkLED', 'readSensor').",
                            "warning"))
                   \o When(~matchesWhole(funcName, identifierPattern),
                           Err(lineNum, 0,
                               "SYNTAX ERROR: Invalid function name '" \o funcName
                               \o "'. Function names must start with letter or underscore.",
                               "error")))
             \o When(endsWith(trimmed, ";") /\ ~matchesWhole(trimmed, voidDeclarationPattern),
                     Err(lineNum, 0,
                         "SYNTAX ERROR: Invalid function declaration syntax. Expected: void functionName();",
                         "error"))

\* the check for a missing semicolon
missingSemicolon(trimmed) ==
    /\ ~endsWith(trimmed, ";")
    /\ ~endsWith(trimmed, "{")
    /\ ~endsWith(trimmed, "}")
    /\ ~startsWith(trimmed, "#")
    /\ \A word \in { "void setup", "void loop", "if (", "else", "for (", "while (", "do",
                     "switch (", "case ", "return", "break", "continue" } :
           ~includes(trimmed, word)
    /\ Len(trimmed) > 0

\* the check for a call of fn without its opening parenthesis
missingParenthesis(trimmed, lineNum, fn, offset) ==
    When(includes(trimmed, fn) /\ ~includes(trimmed, fn \o "("),
         Err(lineNum, indexOf(trimmed, fn) + offset,
             "SYNTAX ERROR: " \o fn \o " function call missing opening parenthesis", "error"))

\* the check for an assignment to a name that has no type
missingType(trimmed) ==
    /\ includes(trimmed, "=")
    /\ \A word \in { "int ", "float ", "char ", "bool ", "String ", "const ", "static ",
                     "void setup", "void loop" } :
           ~includes(trimmed, word)
    /\ indexOf(trimmed, "=") > 0
    /\ ~includes(substring(trimmed, 0, indexOf(trimmed, "=")), " ")

\* the errors the body of the forEach callback pushes for one line
lineErrors(line, lineNum, decls) ==
    LET trimmed == trim(line)
    IN  IF trimmed = "" \/ startsWith(trimmed, "//") \/ startsWith(trimmed, "/*")
           \/ startsWith(trimmed, "*")
        THEN << >>
        ELSE IF countMatches(trimmed, ";") > 1
        THEN << Err(lineNum, 0,
                    "SYNTAX ERROR: Multiple statements on same line. Each statement must be on a separate line.",
                    "error") >>
        ELSE declarationErrors(trimmed, lineNum, decls)
             \o functionNameErrors(trimmed, lineNum)
             \o When(missingSemicolon(trimmed),
                     Err(lineNum, Len(line),
                         "SYNTAX ERROR: " \o ExpectedSemicolon \o " at end of statement", "error"))
             \o missingParenthesis(trimmed, lineNum, "pinMode", 7)
             \o missingParenthesis(trimmed, lineNum, "digitalWrite", 11)
             \o missingParenthesis(trimmed, lineNum, "digitalRead", 10)
             \o When(missingType(trimmed),
                     Err(lineNum, 0,
                         "WARNING: Variable declaration missing type (int, float, char, etc.)",
                         "warning"))
             \o When(countMatches(trimmed, "(") # countMatches(trimmed, ")"),
                     Err(lineNum, 0, "SYNTAX ERROR: Mismatched parentheses", "error"))

\* functionDeclarations after the callback has run for one line
lineDeclarations(line, decls) ==
    LET trimmed == trim(line)
    IN  IF trimmed = "" \/ startsWith(trimmed, "//") \/ startsWith(trimmed, "/*")
           \/ startsWith(trimmed, "*") \/ countMatches(trimmed, ";") > 1
        THEN decls
        ELSE declarationsAfter(trimmed, decls)

\* lines.forEach: st is the state of the local variables before line number i
RECURSIVE analyzeLines(_, _, _)
analyzeLines(lines, i, st) ==
    IF i > Len(lines) THEN st
    ELSE LET line    == lines[i]
             trimmed == trim(line)
             braces  == scanBraces(line, i, [braceCount |-> st.braceCount,
                                             unclosedBraces |-> st.unclosedBraces])
         IN  analyzeLines(lines, i + 1,
                 [hasSetup       |-> st.hasSetup \/ includes(trimmed, "void setup()"),
                  hasLoop        |-> st.hasLoop \/ includes(trimmed, "void loop()"),
                  braceCount     |-> braces.braceCount,
                  unclosedBraces |-> braces.unclosedBraces,
                  functionDeclarations |-> lineDeclarations(line, st.functionDeclarations),
                  errors         |-> st.errors
                                     \o lineErrors(line, i, st.functionDeclarations)])

analyzeLinesOnly(text) ==
    analyzeLines(split(text, "\n"), 1,
                 [hasSetup |-> FALSE, hasLoop |-> FALSE, braceCount |-> 0,
                  unclosedBraces |-> << >>, functionDeclarations |-> {},
                  errors |-> << >>]).errors

\* ArduinoCompiler.analyze(code)
analyze(text) ==
    LET \* the checks that follow the forEach, st being the local variables
        report(lines, st, ub) ==
            st.errors
            \o When(~st.hasSetup,
                    Err(1, 0, "Arduino sketch must have a void setup() function", "error"))
            \o When(~st.hasLoop,
                    Err(1, 0, "Arduino sketch must have a void loop() function", "error"))
            \o When(st.braceCount > 0,
                    Err(IF Len(ub) > 0 THEN ub[Len(ub)] ELSE Len(lines), 0,
                        ToString(st.braceCount) \o " unclosed brace(s)", "error"))
            \o When(st.braceCount < 0,
                    Err(Len(lines), 0,
                        ToString(0 - st.braceCount) \o " extra closing brace(s)", "error"))
        afterLines(lines, st) == report(lines, st, st.unclosedBraces)
        ofLines(lines) ==
            afterLines(lines,
                       analyzeLines(lines, 1,
                           [hasSetup |-> FALSE, hasLoop |-> FALSE, braceCount |-> 0,
                            unclosedBraces |-> << >>, functionDeclarations |-> {},
                            errors |-> << >>]))
    IN  ofLines(split(text, "\n"))
----------------------------------------------------------------------------
(* components/CodeEditor.tsx: analyzeCodeRealTime *)

\* the condition needsSemicolon
needsSemicolon(trimmed) ==
    /\ trimmed # ""
    /\ ~endsWith(trimmed, ";")
    /\ ~endsWith(trimmed, "{")
    /\ ~endsWith(trimmed, "}")
    /\ \A word \in { "void setup", "void loop", "if (", "else if", "else", "for (",
                     "while (", "do", "switch (", "case ", "default:", "#include",
                     "#define" } :
           ~includes(trimmed, word)
    /\ ~startsWith(trimmed, "}")
    /\ \E word \in { "=", "pinMode", "digitalWrite", "analogWrite", "Serial.", "delay(",
                     "return " } :
           includes(trimmed, word)

\* the check of the syntax of a call of fn, whose name has skip characters
\* counted to reach the parameters
callSyntaxErrors(trimmed, lineNum, fn, skip, missing, wanted) ==
    IF ~includes(trimmed, fn) THEN << >>
    ELSE IF ~includes(trimmed, "(") \/ ~includes(trimmed, ")")
    THEN << Err(lineNum, indexOf(trimmed, fn), missing, "error") >>
    ELSE IF includes(trimmed, fn \o "(") /\ ~includes(trimmed, ",")
    THEN LET openParen  == indexOf(trimmed, fn \o "(") + skip
             closeParen == indexOfFrom(trimmed, ")", openParen)
             params     == trim(substring(trimmed, openParen, closeParen))
         IN  When(closeParen > openParen /\ params # "" /\ ~includes(params, ","),
                  Err(lineNum, openParen, wanted, "error"))
    ELSE << >>

\* the text before the first = sign, trimmed
beforeEqual(trimmed) == trim(substring(trimmed, 0, indexOf(trimmed, "=")))

\* the check for a variable assigned without a type
untypedVariable(trimmed) ==
    /\ includes(trimmed, "=")
    /\ \A op \in { "==", "!=", "<=", ">=" } : ~includes(trimmed, op)
    /\ beforeEqual(trimmed) # ""
    /\ ~includes(beforeEqual(trimmed), " ")
    /\ \A word \in { "int ", "float ", "char ", "bool ", "String ", "const ", "static ",
                     "unsigned ", "void setup", "void loop" } :
           ~includes(trimmed, word)
    /\ ~includes(beforeEqual(trimmed), ".")
    /\ ~includes(beforeEqual(trimmed), "[")

\* the errors the forEach callback pushes for one line
realTimeLineErrors(line, lineNum) ==
    LET trimmed == trim(line)
    IN  IF trimmed = "" \/ startsWith(trimmed, "//") \/ startsWith(trimmed, "/*")
           \/ startsWith(trimmed, "*")
        THEN << >>
        ELSE When(needsSemicolon(trimmed),
                  Err(lineNum, Len(line), ExpectedSemicolon \o " at end of statement",
                      "error"))
             \o callSyntaxErrors(trimmed, lineNum, "pinMode", 8,
                    "pinMode function call missing parentheses",
                    "pinMode requires two parameters separated by comma: pinMode(pin, mode)")
             \o callSyntaxErrors(trimmed, lineNum, "digitalWrite", 12,
                    "digitalWrite function call missing parentheses",
                    "digitalWrite requires two parameters: digitalWrite(pin, value)")
             \o callSyntaxErrors(trimmed, lineNum, "analogWrite", 11,
                    "analogWrite function call missing parentheses",
                    "analogWrite requires two parameters: analogWrite(pin, value)")
             \o When(untypedVariable(trimmed),
                     Err(lineNum, 0,
                         "Variable '" \o beforeEqual(trimmed)
                         \o "' declaration missing type (int, float, char, etc.)",
                         "warning"))
             \o When(countMatches(trimmed, "(") # countMatches(trimmed, ")"),
                     Err(lineNum, Len(trimmed), "Mismatched parentheses", "error"))
             \o When(/\ \E word \in { "if (", "for (", "while (" } : includes(trimmed, word)
                     /\ ~includes(trimmed, "{")
                     /\ ~endsWith(trimmed, ")"),
                     Err(lineNum, Len(trimmed), "Control structure missing opening brace {",
                         "warning"))

RECURSIVE realTimeLines(_, _)
realTimeLines(lines, i) ==
    IF i > Len(lines) THEN << >>
    ELSE realTimeLineErrors(lines[i], i) \o realTimeLines(lines, i + 1)

\* analyzeCodeRealTime(code)
analyzeCodeRealTime(text) == realTimeLines(split(text, "\n"), 1)
----------------------------------------------------------------------------
(* utils/freeAIService.ts and utils/aiHelper.ts *)

\* an AIFixSuggestion as the helper builds it; the App adds the identity of
\* the object when it stores one
Fix(line, original, fixed, explanation) ==
    [line |-> line, original |-> original, fixed |-> fixed, explanation |-> explanation]

\* lines[n - 1] || ''
lineOrEmpty(lines, n) == IF n >= 1 /\ n <= Len(lines) THEN lines[n] ELSE ""

\* FreeAIService.simulateAISuggestion(code, error)
simulateAISuggestion(text, error) ==
    IF includes(error, ExpectedSemicolon)
    THEN "Add semicolon at the end of the statement"
    ELSE IF includes(error, "pinMode")
    THEN "pinMode function requires two parameters: pin number and mode (INPUT/OUTPUT)"
    ELSE IF includes(error, "digitalWrite")
    THEN "digitalWrite function requires pin number and value (HIGH/LOW)"
    ELSE IF includes(error, "variable declaration")
    THEN "Declare variable with proper data type (int, float, bool, etc.)"
    ELSE IF includes(error, "void setup")
    THEN "Arduino sketches must have a setup() function for initialization"
    ELSE IF includes(error, "void loop")
    THEN "Arduino sketches must have a loop() function for main program execution"
    ELSE IF includes(error, "unclosed brace")
    THEN "Add missing closing brace } to complete the code block"
    ELSE "Check Arduino syntax and ensure proper function calls"

\* FreeAIService.generateCodeSuggestion(code, error): both the try block and
\* the catch block return the simulated suggestion
generateCodeSuggestion(text, error) == simulateAISuggestion(text, error)

\* AIHelper.createSuggestionFromAI: the list holding the suggestion, empty
\* for null
createSuggestionFromAI(text, error, aiExplanation) ==
    LET line == lineOrEmpty(split(text, "\n"), error.line)
    IN  IF includes(error.message, ExpectedSemicolon)
        THEN << Fix(error.line, line, line \o ";", aiExplanation) >>
        ELSE IF includes(error.message, "pinMode")
        THEN << Fix(error.line, line,
                    replace(replace(line, "pinMode(", "pinMode("), " ", ", "),
                    aiExplanation) >>
        ELSE IF includes(error.message, "digitalWrite")
        THEN << Fix(error.line, line,
                    replace(replace(line, "digitalWrite(", "digitalWrite("), " ", ", "),
                    aiExplanation) >>
        ELSE << >>

ruleBasedFixLineKept(lines, error) ==
    << Fix(error.line, lineOrEmpty(lines, error.line), lineOrEmpty(lines, error.line),
           "Added missing semicolon at end of statement") >>

\* the suggestion getRuleBasedFixes makes for one error
ruleBasedFix(lines, error) ==
    LET line == lineOrEmpty(lines, error.line)
    IN  IF includes(error.message, ExpectedSemicolon)
        THEN << Fix(error.line, line, line \o ";",
                    "Added missing semicolon at end of statement") >>
        ELSE IF includes(error.message, "void setup()")
        THEN << Fix(1, "",
                    "void setup() {\n  // Initialization code here\n  Serial.begin(9600);\n}",
                    "Added required setup() function") >>
        ELSE IF includes(error.message, "void loop()")
        THEN << Fix(1, "", "\nvoid loop() {\n  // Main code here\n}",
                    "Added required loop() function") >>
        ELSE IF includes(error.message, "unclosed brace")
        THEN << Fix(error.line, line, line \o "\n}", "Added missing closing brace") >>
        ELSE << >>

\* AIHelper.getRuleBasedFixes(code, errors)
RECURSIVE getRuleBasedFixesFrom(_, _, _)
getRuleBasedFixesFrom(lines, errs, i) ==
    IF i > Len(errs) THEN << >>
    ELSE ruleBasedFix(lines, errs[i]) \o getRuleBasedFixesFrom(lines, errs, i + 1)

getRuleBasedFixes(text, errs) == getRuleBasedFixesFrom(split(text, "\n"), errs, 1)

\* AIHelper.countBraces
countBraces(text) == countMatches(text, "{") - countMatches(text, "}")

\* AIHelper.validateSuggestion(code, suggestion)
validateSuggestion(text, suggestion) ==
    LET lines           == split(text, "\n")
        targetTrimmed   == trim(lines[suggestion.line])
        originalTrimmed == trim(suggestion.original)
    IN  IF suggestion.line < 1 \/ suggestion.line > Len(lines) + 2 THEN FALSE
        ELSE IF suggestion.line > Len(lines) THEN TRUE
        ELSE IF /\ originalTrimmed # ""
                /\ originalTrimmed # targetTrimmed
                /\ targetTrimmed # ""
                /\ ~includes(targetTrimmed, originalTrimmed)
        THEN FALSE
        ELSE TRUE

\* the number of lines at the head of the text that are #include or #define
RECURSIVE leadingDirectives(_, _)
leadingDirectives(lines, i) ==
    IF i <= Len(lines)
       /\ (startsWith(trim(lines[i]), "#include") \/ startsWith(trim(lines[i]), "#define"))
    THEN 1 + leadingDirectives(lines, i + 1)
    ELSE 0

\* statements.map(s => s.trim() + ';') over the parts that are not blank
RECURSIVE statementLines(_)
statementLines(parts) ==
    IF Len(parts) = 0 THEN << >>
    ELSE (IF trim(Head(parts)) # "" THEN << trim(Head(parts)) \o ";" >> ELSE << >>)
         \o statementLines(Tail(parts))

\* the loop that removes the last closing parenthesis n times
RECURSIVE removeLastParens(_, _)
removeLastParens(text, n) ==
    IF n <= 0 THEN text
    ELSE LET lastParen == lastIndexOf(text, ")")
         IN  removeLastParens(IF lastParen # -1
                              THEN substring(text, 0, lastParen)
                                   \o substring(text, lastParen + 1, Len(text))
                              ELSE text,
                              n - 1)

\* /fn\s*\(\s*(\d+)\s+(second+)\s*\)/
callPattern(fn, second) ==
    Lit(fn) \o << Star(WhiteSpace), One({ "(" }), Star(WhiteSpace), Plus(Digits),
                  Plus(WhiteSpace), Plus(second), Star(WhiteSpace), One({ ")" }) >>

\* text.replace(/fn\s*\(\s*(\d+)\s+(second+)\s*\)/, 'fn($1, $2)')
addComma(text, fn, second) ==
    LET \* the match at position at, ends being the positions behind its items
        rewritten(at, ends, k) ==
            substring(text, 0, at)
            \o fn \o "(" \o substring(text, ends[k + 3], ends[k + 4])
            \o ", " \o substring(text, ends[k + 5], ends[k + 6]) \o ")"
            \o substring(text, ends[k + 8], Len(text))
        matchedAt(pat, at) ==
            IF at = -1 THEN text
            ELSE rewritten(at, matchFrom(text, at, pat).ends, Len(fn))
        matched(pat) == matchedAt(pat, searchFrom(text, pat))
    IN  matched(callPattern(fn, second))

\* the line with the syntax of the Arduino calls fixed
fixedCalls(line) ==
    LET \* the replacement for the calls of fn, applied to the text made so far
        step(fixed, fn, second) ==
            IF includes(line, fn) /\ ~includes(line, ",")
            THEN addComma(fixed, fn, second) ELSE fixed
    IN  step(step(step(line, "pinMode", WordChars), "digitalWrite", WordChars),
             "analogWrite", Digits)

\* the suggestion getEnhancedRuleBasedFixes builds for one error on the line
\* with the message, before it is validated
enhancedFixOf(text, lines, error, line, msg) ==
    LET diff == countMatches(line, "(") - countMatches(line, ")")
        separate(statements) ==
            IF Len(statements) > 1
            THEN << Fix(error.line, line, join(statements, "\n"),
                        "Split multiple statements into separate lines") >>
            ELSE << >>
        closing(braceCount) ==
            IF braceCount > 0
            THEN << Fix(Len(lines) + 1, "", repeat("}", braceCount),
                        "Added " \o ToString(braceCount)
                        \o " missing closing brace(s) at end of code") >>
            ELSE << >>
        calls(fixed) ==
            IF fixed # line
            THEN << Fix(error.line, line, fixed,
                        "Fixed Arduino function syntax - added missing comma between parameters") >>
            ELSE << >>
    IN  IF includes(msg, ExpectedSemicolon) \/ includes(msg, "SYNTAX ERROR: Expected")
        THEN IF ~endsWith(trim(line), ";")
             THEN << Fix(error.line, line, line \o ";",
                         "Added missing semicolon at end of statement") >>
             ELSE << >>
        ELSE IF includes(msg, "void setup()")
                \/ includes(msg, "Arduino sketch must have a void setup()")
        THEN << Fix(leadingDirectives(lines, 1) + 1, "",
                    IF includes(text, "Serial.begin")
                    THEN "void setup() {\n  // Initialization code here\n}"
                    ELSE "void setup() {\n  // Initialization code here\n  Serial.begin(9600);\n}",
                    "Added required setup() function with Serial initialization") >>
        ELSE IF includes(msg, "void loop()")
                \/ includes(msg, "Arduino sketch must have a void loop()")
        THEN << Fix(Len(lines) + 1, "", "\nvoid loop() {\n  // Main code here\n}",
                    "Added required loop() function at the end of the sketch") >>
        ELSE IF includes(msg, "Multiple statements on same line")
        THEN separate(statementLines(split(line, ";")))
        ELSE IF includes(msg, "Redefinition of function")
                \/ includes(msg, "Duplicate function declaration")
        THEN << Fix(error.line, line, "", "Removed duplicate function declaration") >>
        ELSE IF includes(msg, "unclosed brace")
        THEN closing(countBraces(text))
        ELSE IF includes(msg, "Mismatched parentheses")
        THEN IF diff > 0
             THEN << Fix(error.line, line, line \o repeat(")", diff),
                         "Added " \o ToString(diff)
                         \o " missing closing parenthesis/parentheses") >>
             ELSE IF diff < 0
             THEN << Fix(error.line, line, removeLastParens(line, 0 - diff),
                         "Removed " \o ToString(0 - diff)
                         \o " extra closing parenthesis/parentheses") >>
             ELSE << >>
        ELSE IF includes(msg, "pinMode") \/ includes(msg, "digitalWrite")
                \/ includes(msg, "analogWrite")
        THEN calls(fixedCalls(line))
        ELSE << >>

\* the suggestion for one error, the empty list when none is made or the one
\* made is not valid
enhancedFix(text, lines, error) ==
    LET validated(made) ==
            IF made # << >> /\ validateSuggestion(text, made[1]) THEN made ELSE << >>
    IN  validated(enhancedFixOf(text, lines, error, lineOrEmpty(lines, error.line),
                                error.message))

\* AIHelper.getEnhancedRuleBasedFixes(code, errors)
RECURSIVE getEnhancedRuleBasedFixesFrom(_, _, _, _)
getEnhancedRuleBasedFixesFrom(text, lines, errs, i) ==
    IF i > Len(errs) THEN << >>
    ELSE (IF errs[i].line < 1 \/ errs[i].line > Len(lines) THEN << >>
          ELSE enhancedFix(text, lines, errs[i]))
         \o getEnhancedRuleBasedFixesFrom(text, lines, errs, i + 1)

getEnhancedRuleBasedFixes(text, errs) ==
    getEnhancedRuleBasedFixesFrom(text, split(text, "\n"), errs, 1)

\* what may go wrong inside AIHelper.analyzeAndFix: nothing; an exception in
\* the loop over the errors (caught by getAIPoweredFixes); an exception that
\* leaves getAIPoweredFixes (caught by analyzeAndFix)
Faults == { "none", "service", "helper" }

\* the loop of getAIPoweredFixes over the errors
RECURSIVE aiSuggestionsFrom(_, _, _)
aiSuggestionsFrom(text, errs, i) ==
    IF i > Len(errs) THEN << >>
    ELSE createSuggestionFromAI(text, errs[i],
                                generateCodeSuggestion(text, errs[i].message))
         \o aiSuggestionsFrom(text, errs, i + 1)

\* AIHelper.getAIPoweredFixes(code, errors): the list it resolves to, or the
\* exception it rejects with
getAIPoweredFixes(text, errs, fault) ==
    LET resolved(suggestions) ==
            IF fault # "service" /\ Len(suggestions) > 0
            THEN [threw |-> FALSE, value |-> suggestions]
            ELSE [threw |-> FALSE, value |-> getEnhancedRuleBasedFixes(text, errs)]
    IN  IF fault = "helper" THEN [threw |-> TRUE, value |-> << >>]
        ELSE resolved(aiSuggestionsFrom(text, errs, 1))

analyzeAndFixNoFallback(text, errs, fault) ==
    LET settled(aiSuggestions_) ==
            [rejected |-> aiSuggestions_.threw, value |-> aiSuggestions_.value]
    IN  settled(getAIPoweredFixes(text, errs, fault))

\* AIHelper.analyzeAndFix(code, errors): the list it resolves to
analyzeAndFix(text, errs, fault) ==
    LET settled(aiSuggestions_) ==
            IF ~aiSuggestions_.threw /\ Len(aiSuggestions_.value) > 0
            THEN [rejected |-> FALSE, value |-> aiSuggestions_.value]
            ELSE [rejected |-> FALSE, value |-> getRuleBasedFixes(text, errs)]
    IN  settled(getAIPoweredFixes(text, errs, fault))

\* AIHelper.getContextualSuggestions(code)
getContextualSuggestions(text) ==
    LET lines == split(text, "\n")
    IN  IF (\E i \in 1..Len(lines) : includes(lines[i], "void setup()"))
           /\ ~(\E i \in 1..Len(lines) : includes(lines[i], "Serial.begin"))
        THEN << Fix(1, "", "void setup() {\n  Serial.begin(9600);\n}",
                    "Added Serial.begin(9600) for debugging and communication") >>
        ELSE << >>

----------------------------------------------------------------------------
(* components/AIPanel.tsx: AIAssistant.generateSmartSuggestions *)

\* an AISuggestion; its type and confidence are only displayed
Hint(id, title, description, fixed, line) ==
    [id |-> id, title |-> title, description |-> description, code |-> fixed,
     line |-> line]

\* /fn\(\s*\d+\s+\w+\s*\)/
smartCallPattern(fn) ==
    Lit(fn) \o << One({ "(" }), Star(WhiteSpace), Plus(Digits), Plus(WhiteSpace),
                  Plus(WordChars), Star(WhiteSpace), One({ ")" }) >>

\* trimmed.replace(/fn\((\s*\d+)\s+(\w+)\s*\)/, 'fn($1, $2)')
smartAddComma(trimmed, fn) ==
    LET pat == smartCallPattern(fn)
        at  == searchFrom(trimmed, pat)
        m   == matchFrom(trimmed, at, pat)
        k   == Len(fn)
    IN  substring(trimmed, 0, at)
        \o fn \o "(" \o substring(trimmed, m.ends[k + 1], m.ends[k + 3])
        \o ", " \o substring(trimmed, m.ends[k + 4], m.ends[k + 5]) \o ")"
        \o substring(trimmed, m.ends[k + 7], Len(trimmed))

\* the suggestion for an assignment to a name without a type
smartVariableHints(line, trimmed, lineNum) ==
    LET varName == trim(split(trimmed, "=")[1])
    IN  When(/\ includes(trimmed, "=")
             /\ \A word \in { "int ", "float ", "bool ", "char ", "String " } :
                    ~includes(trimmed, word)
             /\ varName # ""
             /\ ~includes(varName, " ")
             /\ ~includes(varName, "void")
             /\ ~includes(varName, "("),
             Hint("var-" \o ToString(lineNum), "Add variable type for " \o varName,
                  "Declare " \o varName \o " with proper data type",
                  indentation(line) \o "int " \o trimmed, lineNum))

\* the condition needsSemicolon of the assistant
smartNeedsSemicolon(trimmed) ==
    /\ trimmed # ""
    /\ ~endsWith(trimmed, ";")
    /\ ~endsWith(trimmed, "{")
    /\ ~endsWith(trimmed, "}")
    /\ ~startsWith(trimmed, "//")
    /\ ~startsWith(trimmed, "/*")
    /\ \A word \in { "void setup", "void loop", "if (", "else", "for (", "while (",
                     "#include", "#define" } :
           ~includes(trimmed, word)
    /\ \E word \in { "=", "pinMode", "digitalWrite", "Serial.", "delay(" } :
           includes(trimmed, word)

\* the suggestions about a call of fn; tag is the name in the suggestion id
smartCallHints(line, trimmed, lineNum, fn, tag, params, second, example) ==
    IF ~includes(trimmed, fn) THEN << >>
    ELSE IF ~includes(trimmed, "(") \/ ~includes(trimmed, ")")
    THEN << Hint(tag \o "-paren-" \o ToString(lineNum),
                 "Fix " \o fn \o " syntax - add parentheses",
                 fn \o " function needs parentheses",
                 replace(trimmed, fn, fn \o params), lineNum) >>
    ELSE IF includes(trimmed, fn \o "(") /\ ~includes(trimmed, ",")
    THEN IF searchFrom(trimmed, smartCallPattern(fn)) # -1
         THEN << Hint(tag \o "-comma-" \o ToString(lineNum),
                      "Fix " \o fn \o " syntax - add comma",
                      fn \o " requires comma between pin and " \o second,
                      indentation(line) \o smartAddComma(trimmed, fn), lineNum) >>
         ELSE << Hint(tag \o "-comma-" \o ToString(lineNum),
                      "Fix " \o fn \o " syntax",
                      fn \o " requires two parameters: " \o fn \o params,
                      example, lineNum) >>
    ELSE << >>

\* the suggestions the forEach callback pushes for one line
smartLineHints(text, lines, lineNum) ==
    LET line    == lines[lineNum]
        trimmed == trim(line)
    IN  smartVariableHints(line, trimmed, lineNum)
        \o When(smartNeedsSemicolon(trimmed),
                Hint("semicolon-" \o ToString(lineNum), "Add missing semicolon",
                     "Statement should end with semicolon",
                     indentation(line) \o trimmed \o ";", lineNum))
        \o smartCallHints(line, trimmed, lineNum, "pinMode", "pinmode", "(pin, mode)",
                          "mode",
                          "pinMode(pin, OUTPUT); // Example: replace with actual pin number")
        \o smartCallHints(line, trimmed, lineNum, "digitalWrite", "digitalwrite",
                          "(pin, value)", "value",
                          "digitalWrite(pin, HIGH); // Example: replace with actual pin number")
        \o When(/\ includes(trimmed, "void setup()")
                /\ ~includes(text, "Serial.begin")
                /\ lineNum <= Len(lines),
                Hint("serial-begin", "Add Serial.begin for debugging",
                     "Enable serial communication for debugging",
                     "  Serial.begin(9600);", lineNum))

RECURSIVE smartHintsFrom(_, _, _)
smartHintsFrom(text, lines, i) ==
    IF i > Len(lines) THEN << >>
    ELSE smartLineHints(text, lines, i) \o smartHintsFrom(text, lines, i + 1)

\* AIAssistant.generateSmartSuggestions(code, errors): the list its promise
\* resolves to
generateSmartSuggestions(text) ==
    LET lines == split(text, "\n")
        all   == smartHintsFrom(text, lines, 1)
                 \o When(~includes(text, "void setup()"),
                         Hint("setup-function", "Add setup() function",
                              "Arduino sketches require setup() function",
                              "void setup() {\n  // Initialization code here\n  Serial.begin(9600);\n}",
                              1))
                 \o When(~includes(text, "void loop()"),
                         Hint("loop-function", "Add loop() function",
                              "Arduino sketches require loop() function",
                              "\nvoid loop() {\n  // Main code here\n}",
                              IF Len(lines) > 0 THEN Len(lines) ELSE 1))
    IN  SubSeq(all, 1, IF Len(all) > 5 THEN 5 ELSE Len(all))

----------------------------------------------------------------------------
(* App.tsx: effects *)

\* Array.prototype.find on a project list; NoProject for undefined
ProjectById(ps, id) ==
    LET i == FindIndex(ps, LAMBDA p : p.id = id)
    IN  IF i = 0 THEN NoProject ELSE ps[i]

\* Array.prototype.find on a sketch list by name; NoSketch for undefined
SketchByName(sks, name) ==
    LET j == FindIndex(sks, LAMBDA k : k.name = name)
    IN  IF j = 0 THEN NoSketch ELSE sks[j]

\* the auto-save effect, run after a render in which code, currentProject or
\* currentSketch changed: the pending timeout is cleared and a new one is set
\* exactly when the condition of the effect holds
AutoSaveEffect(cp, cs, c) == cp # NoProject /\ cs # NoSketch /\ c # cs.content

AnalysisEffectNoCleanup(c) ==
    IF c = code THEN analysisTimer
    ELSE analysisTimer \o (IF c # EmptyContent THEN << c >> ELSE << >>)

\* the debounced analysis effect: a change of code clears the pending timeout
\* and sets a new one, whose callback closes over the new code, unless the new
\* code is empty
AnalysisEffect(c) ==
    IF c = code THEN analysisTimer
    ELSE IF c # EmptyContent THEN << c >> ELSE << >>

\* CodeEditor's real-time effect after a render with the value c: its cleanup
\* clears the pending timeout and it sets a new one, whose callback closes
\* over c
RealTimeEffect(c) == << c >>

\* the AIAssistant's effect: while the assistant is shown, a change of code to
\* a text of more than 10 characters starts an analysis of that text.  All
\* analyses take the same time and the latest to resolve sets the list that
\* stays, so that when MaxAssistantTimers are pending the new one takes the
\* place of the newest of them.
AssistantEffect(c) ==
    IF showAIAssistant /\ c # code /\ Len(c) > 10
    THEN assistantTimers' =
             Append(SubSeq(assistantTimers, 1,
                           IF Len(assistantTimers) < MaxAssistantTimers
                           THEN Len(assistantTimers)
                           ELSE MaxAssistantTimers - 1), c)
    ELSE UNCHANGED assistantTimers

\* the effects that depend on code, run after a render with the code c
CodeEffects(c) ==
    /\ analysisTimer' = AnalysisEffect(c)
    /\ AssistantEffect(c)
    /\ codeSettled' = (c = code /\ codeSettled)
    /\ ranSince' = (c = code /\ ranSince)

\* what a re-render caused by the project side of the App does to the state of
\* the editing side: the analysis effect runs on the new code; CodeEditor's
\* effect depends on the onRealTimeError prop, a new function on every render
\* of App, so that its timeout is set again
EditSideAfterRender(c) ==
    /\ CodeEffects(c)
    /\ realTimeTimer' = RealTimeEffect(c)
    /\ UNCHANGED <<errors, realTimeErrors, compiles, isCompiling, aiSuggestions,
                   showAIPanel, isApplyingFix, fixTimers, closeTimers,
                   appliedSuggestions, suggestionsMade, showAIAssistant,
                   assistantSuggestions, utilVars>>

\* an exception leaves the handler before it has set any state
Escapes(op) ==
    /\ escaped' = TRUE
    /\ last' = op
    /\ UNCHANGED <<storageVars, mounted, projects, currentProject, currentSketch,
                   code, autoSaveTimer, expandedProjects, editVars, utilVars>>

----------------------------------------------------------------------------
(* App.tsx: the mount effect and the handlers of the project side *)

DefaultProjectName == "MyFirstProject"

\* first project of a loaded list, NoProject for undefined
FirstOrNone(ps) == IF Len(ps) > 0 THEN ps[1] ELSE NoProject
FirstSketchOrNone(p) == IF Len(p.sketches) > 0 THEN p.sketches[1] ELSE NoSketch

Mount ==
    /\ ~mounted /\ ~escaped
    /\ IF lsCorrupt
       THEN \* JSON.parse throws inside the effect: React unmounts the tree
            /\ Escapes("mount")
            /\ UNCHANGED imports
       ELSE /\ mounted' = TRUE
            /\ last' = "mount"
            /\ UNCHANGED <<lsCorrupt, escaped, expandedProjects, imports>>
            /\ IF Len(lsProjects) = 0
               THEN /\ nextId + 1 <= MaxIds
                    /\ LET p == newProject(DefaultProjectName, nextId, nextId + 1)
                       IN  /\ lsProjects' = createProject(lsProjects, DefaultProjectName,
                                                          nextId, nextId + 1)
                           /\ lsCurrent' = currentAfterCreate(lsCurrent, nextId)
                           /\ nextId' = nextId + 2
                           /\ projects' = << p >>
                           /\ currentProject' = p
                           /\ currentSketch' = p.sketches[1]
                           /\ code' = p.sketches[1].content
               ELSE /\ UNCHANGED <<lsProjects, lsCurrent, nextId>>
                    /\ projects' = lsProjects
                    /\ LET project == IF lsCurrent # 0
                                      THEN ProjectById(lsProjects, lsCurrent)
                                      ELSE lsProjects[1]
                       IN  IF project # NoProject
                           THEN /\ currentProject' = project
                                /\ currentSketch' = project.sketches[1]
                                /\ code' = project.sketches[1].content
                           ELSE UNCHANGED <<currentProject, currentSketch, code>>
            /\ autoSaveTimer' = AutoSaveEffect(currentProject', currentSketch', code')
            /\ EditSideAfterRender(code')

\* the page is loaded again: every piece of component state, every timeout
\* and every pending continuation is gone; localStorage stays
Reload ==
    /\ mounted /\ ~escaped
    /\ mounted' = FALSE
    /\ projects' = << >>
    /\ currentProject' = NoProject
    /\ currentSketch' = NoSketch
    /\ code' = EmptyContent
    /\ autoSaveTimer' = FALSE
    /\ expandedProjects' = {}
    /\ imports' = << >>
    /\ errors' = << >>
    /\ realTimeErrors' = << >>
    /\ analysisTimer' = << >>
    /\ realTimeTimer' = << >>
    /\ compiles' = << >>
    /\ isCompiling' = FALSE
    /\ aiSuggestions' = << >>
    /\ showAIPanel' = FALSE
    /\ isApplyingFix' = FALSE
    /\ fixTimers' = << >>
    /\ closeTimers' = 0
    /\ appliedSuggestions' = {}
    /\ showAIAssistant' = TRUE
    /\ assistantSuggestions' = << >>
    /\ assistantTimers' = << >>
    /\ codeSettled' = FALSE
    /\ ranSince' = FALSE
    /\ last' = "reload"
    /\ port' = "null"
    /\ reader' = "null"
    /\ writer' = "null"
    /\ UNCHANGED <<storageVars, escaped, suggestionsMade, serialSupported,
                   serialLast, aiCall>>

handleNewProject(name) ==
    /\ mounted /\ ~escaped
    /\ nextId + 1 <= MaxIds
    /\ LET newP == newProject(name, nextId, nextId + 1)
       IN  /\ lsProjects' = createProject(lsProjects, name, nextId, nextId + 1)
           /\ lsCurrent' = currentAfterCreate(lsCurrent, nextId)
           /\ nextId' = nextId + 2
           /\ projects' = lsProjects'
           /\ currentProject' = newP
           /\ currentSketch' = newP.sketches[1]
           /\ code' = newP.sketches[1].content
    /\ autoSaveTimer' = AutoSaveEffect(currentProject', currentSketch', code')
    /\ EditSideAfterRender(code')
    /\ last' = "handleNewProject"
    /\ UNCHANGED <<lsCorrupt, mounted, expandedProjects, imports, escaped>>

handleNewSketch(name) ==
    /\ mounted /\ ~escaped
    /\ currentProject # NoProject
    /\ nextId <= MaxIds
    /\ IF addSketchThrows(lsProjects, currentProject.id)
       THEN Escapes("handleNewSketch") /\ UNCHANGED imports
       ELSE /\ lsProjects' = addSketch(lsProjects, currentProject.id, name, nextId)
            /\ nextId' = nextId + 1
            /\ projects' = lsProjects'
            /\ currentProject' = ProjectById(lsProjects', currentProject.id)
            /\ currentSketch' = newSketch(nextId, name, EmptyContent)
            /\ code' = EmptyContent
            /\ autoSaveTimer' = AutoSaveEffect(currentProject', currentSketch', code')
            /\ EditSideAfterRender(code')
            /\ last' = "handleNewSketch"
            /\ UNCHANGED <<lsCurrent, lsCorrupt, mounted, expandedProjects, imports, escaped>>

\* Sidebar toggleProject
toggleProject(expanded, projectId) ==
    IF projectId \in expanded THEN expanded \ {projectId} ELSE expanded \cup {projectId}

\* a click on the i-th project row of the sidebar: onProjectSelect, toggleProject
handleProjectSelect(i) ==
    /\ mounted /\ ~escaped
    /\ i \in 1 .. Len(projects)
    /\ LET project == projects[i]
       IN  /\ currentProject' = project
           /\ currentSketch' = project.sketches[1]
           /\ code' = project.sketches[1].content
           /\ lsCurrent' = project.id
           /\ expandedProjects' = toggleProject(expandedProjects, project.id)
    /\ autoSaveTimer' = AutoSaveEffect(currentProject', currentSketch', code')
    /\ EditSideAfterRender(code')
    /\ last' = "handleProjectSelect"
    /\ UNCHANGED <<lsProjects, lsCorrupt, nextId, mounted, projects, imports, escaped>>

\* a click on the j-th sketch row shown under the i-th project, which the
\* sidebar renders for every expanded project
handleSketchSelect(i, j) ==
    /\ mounted /\ ~escaped
    /\ i \in 1 .. Len(projects)
    /\ projects[i].id \in expandedProjects
    /\ j \in 1 .. Len(projects[i].sketches)
    /\ LET sketch == projects[i].sketches[j]
       IN  /\ lsProjects' = IF currentProject # NoProject /\ currentSketch # NoSketch
                            THEN updateSketch(lsProjects, currentProject.id,
                                              currentSketch.id, code)
                            ELSE lsProjects
           /\ currentSketch' = sketch
           /\ code' = sketch.content
    /\ autoSaveTimer' = AutoSaveEffect(currentProject, currentSketch', code')
    /\ EditSideAfterRender(code')
    /\ last' = "handleSketchSelect"
    /\ UNCHANGED <<lsCurrent, lsCorrupt, nextId, mounted, projects, currentProject,
                   expandedProjects, imports, escaped>>

\* a click on the delete button of the i-th project row, confirmed
handleDeleteProject(i) ==
    /\ mounted /\ ~escaped
    /\ i \in 1 .. Len(projects)
    /\ LET projectId == projects[i].id
       IN  /\ lsProjects' = deleteProject(lsProjects, projectId)
           /\ lsCurrent' = currentAfterDelete(lsCurrent, projectId)
           /\ projects' = lsProjects'
           /\ IF currentProject.id = projectId
              THEN /\ currentProject' = FirstOrNone(projects')
                   /\ currentSketch' = FirstSketchOrNone(currentProject')
                   /\ code' = currentSketch'.content
                   /\ autoSaveTimer' = AutoSaveEffect(currentProject', currentSketch', code')
              ELSE UNCHANGED <<currentProject, currentSketch, code, autoSaveTimer>>
    /\ EditSideAfterRender(code')
    /\ last' = "handleDeleteProject"
    /\ UNCHANGED <<lsCorrupt, nextId, mounted, expandedProjects, imports, escaped>>

\* a click on the delete button of the j-th sketch row under the i-th project
\* (shown when that project has more than one sketch), confirmed
handleDeleteSketch(i, j) ==
    /\ mounted /\ ~escaped
    /\ currentProject # NoProject
    /\ i \in 1 .. Len(projects)
    /\ projects[i].id \in expandedProjects
    /\ Len(projects[i].sketches) > 1
    /\ j \in 1 .. Len(projects[i].sketches)
    /\ LET sketchId == projects[i].sketches[j].id
           updatedProjects == deleteSketch(lsProjects, currentProject.id, sketchId)
           updatedProject == ProjectById(updatedProjects, currentProject.id)
       IN  /\ lsProjects' = updatedProjects
           /\ projects' = updatedProjects
           /\ IF updatedProject # NoProject
              THEN /\ currentProject' = updatedProject
                   /\ IF currentSketch.id = sketchId
                      THEN /\ currentSketch' = updatedProject.sketches[1]
                           /\ code' = updatedProject.sketches[1].content
                      ELSE UNCHANGED <<currentSketch, code>>
                   /\ autoSaveTimer' = AutoSaveEffect(currentProject', currentSketch', code')
              ELSE UNCHANGED <<currentProject, currentSketch, code, autoSaveTimer>>
    /\ EditSideAfterRender(code')
    /\ last' = "handleDeleteSketch"
    /\ UNCHANGED <<lsCurrent, lsCorrupt, nextId, mounted, expandedProjects, imports, escaped>>

\* handleImportSketch up to the await: the chosen file is being read
handleImportSketch(name, content) ==
    /\ mounted /\ ~escaped
    /\ currentProject # NoProject
    /\ Len(imports) < MaxImports
    /\ imports' = Append(imports, [pid |-> currentProject.id, name |-> name,
                                   content |-> content])
    /\ last' = "handleImportSketch"
    /\ UNCHANGED <<storageVars, mounted, projects, currentProject, currentSketch, code,
                   autoSaveTimer, expandedProjects, escaped, editVars, utilVars>>

RemoveAt(seq, k) == SubSeq(seq, 1, k - 1) \o SubSeq(seq, k + 1, Len(seq))

\* the continuation of handleImportSketch once the file has been read; the
\* closure still holds the currentProject of the render that started it
ImportLoaded(k) ==
    /\ mounted /\ ~escaped
    /\ k \in 1 .. Len(imports)
    /\ nextId <= MaxIds
    /\ imports' = RemoveAt(imports, k)
    /\ LET e == imports[k]
       IN  IF addSketchThrows(lsProjects, e.pid)
           THEN Escapes("ImportLoaded")
           ELSE LET updatedProjects == addSketch(lsProjects, e.pid, e.name, nextId)
                    updatedProject == ProjectById(updatedProjects, e.pid)
                    newSk == SketchByName(updatedProject.sketches, e.name)
                IN  /\ nextId' = nextId + 1
                    /\ projects' = updatedProjects
                    /\ currentProject' = updatedProject
                    /\ lsProjects' = updateSketch(updatedProjects, e.pid, newSk.id, e.content)
                    /\ currentSketch' = newSk
                    /\ code' = e.content
                    /\ autoSaveTimer' = AutoSaveEffect(currentProject', currentSketch', code')
                    /\ EditSideAfterRender(code')
                    /\ last' = "ImportLoaded"
                    /\ UNCHANGED <<lsCurrent, lsCorrupt, mounted, expandedProjects, escaped>>

\* the FileReader reports an error: importSketch rejects, nothing catches it
ImportFailed(k) ==
    /\ mounted /\ ~escaped
    /\ k \in 1 .. Len(imports)
    /\ imports' = RemoveAt(imports, k)
    /\ Escapes("ImportFailed")

\* an editor change event
handleCodeChange(newCode) ==
    /\ mounted /\ ~escaped
    /\ IF isApplyingFix
       THEN /\ last' = "handleCodeChange:ignored"
            /\ UNCHANGED <<code, autoSaveTimer, editVars>>
       ELSE /\ code' = newCode
            /\ autoSaveTimer' = IF newCode = code THEN autoSaveTimer
                                ELSE AutoSaveEffect(currentProject, currentSketch, newCode)
            /\ CodeEffects(newCode)
            /\ realTimeTimer' = IF newCode = code THEN realTimeTimer
                                ELSE RealTimeEffect(newCode)
            /\ last' = "handleCodeChange"
            /\ UNCHANGED <<errors, realTimeErrors, compiles, isCompiling, aiSuggestions,
                           showAIPanel, isApplyingFix, fixTimers, closeTimers,
                           appliedSuggestions, suggestionsMade, showAIAssistant, assistantSuggestions>>
    /\ UNCHANGED <<storageVars, mounted, projects, currentProject, currentSketch,
                   expandedProjects, imports, escaped, utilVars>>

\* the auto-save timeout fires
AutoSaveFire ==
    /\ mounted /\ ~escaped
    /\ autoSaveTimer
    /\ LET updatedProjects == updateSketch(lsProjects, currentProject.id,
                                           currentSketch.id, code)
           updatedProject == ProjectById(updatedProjects, currentProject.id)
       IN  /\ lsProjects' = updatedProjects
           /\ projects' = updatedProjects
           /\ IF updatedProject # NoProject
              THEN /\ currentProject' = updatedProject
                   /\ autoSaveTimer' = AutoSaveEffect(updatedProject, currentSketch, code)
              ELSE /\ UNCHANGED currentProject
                   /\ autoSaveTimer' = FALSE
    /\ EditSideAfterRender(code)
    /\ last' = "AutoSaveFire"
    /\ UNCHANGED <<lsCurrent, lsCorrupt, nextId, mounted, currentSketch, code,
                   expandedProjects, imports, escaped>>

----------------------------------------------------------------------------
(* The App with its project side: storage, sidebar, import and auto-save *)

Init ==
    /\ StorageEmpty
    /\ lsCorrupt \in BOOLEAN
    /\ AppIdle
    /\ UtilIdle
    /\ last = NoOp

Next ==
    \/ Mount
    \/ Reload
    \/ \E name \in Names : handleNewProject(name)
    \/ \E name \in Names : handleNewSketch(name)
    \/ \E i \in 1 .. Len(projects) : handleProjectSelect(i)
    \/ \E i \in 1 .. Len(projects) :
         \E j \in 1 .. Len(projects[i].sketches) : handleSketchSelect(i, j)
    \/ \E i \in 1 .. Len(projects) : handleDeleteProject(i)
    \/ \E i \in 1 .. Len(projects) :
         \E j \in 1 .. Len(projects[i].sketches) : handleDeleteSketch(i, j)
    \/ \E name \in Names, content \in FileTexts : handleImportSketch(name, content)
    \/ \E k \in 1 .. Len(imports) : ImportLoaded(k)
    \/ \E k \in 1 .. Len(imports) : ImportFailed(k)
    \/ \E newCode \in TypedTexts : handleCodeChange(newCode)
    \/ AutoSaveFire

Spec == Init /\ [][Next]_vars

----------------------------------------------------------------------------
(* Claims about the project side of the App *)

\* the stored current-project id is absent or names a stored project
C3_CurrentStored == lsCurrent = 0 \/ lsCurrent \in ProjectIds(lsProjects)

C3_DeleteCurrentStep(projectId) ==
    /\ lsCurrent' = 0
    /\ \E k \in 1 .. Len(lsProjects) :
         /\ lsProjects[k].id = projectId
         /\ lsProjects' = RemoveAt(lsProjects, k)

\* C3: whatever projects are created, deleted and selected, the stored
\* current-project id is absent or the id of a stored project; deleting the
\* current project removes the stored id and removes exactly the project with
\* that id from the stored list.
C3_CurrentProjectId ==
    /\ []C3_CurrentStored
    /\ [][\A i \in 1 .. Len(projects) :
             (handleDeleteProject(i) /\ lsCurrent = projects[i].id)
                 => C3_DeleteCurrentStep(projects[i].id)]_vars

\* the current project has just been deleted while another project is stored
C3_Witness ==
    /\ last = "handleDeleteProject"
    /\ lsCurrent = 0
    /\ Len(lsProjects) = 1
    /\ currentProject = lsProjects[1]

\* the contents stored for the sketch with the given id
StoredContents(ps, sid) ==
    UNION { { ps[i].sketches[j].content :
                j \in { k \in 1 .. Len(ps[i].sketches) : ps[i].sketches[k].id = sid } } :
            i \in 1 .. Len(ps) }

\* the step stores the editor code in the open sketch and in no other
C4_AutoSaveStep ==
    /\ StoredContents(lsProjects', currentSketch.id) = { code }
    /\ \A sid \in AllSketchIds(lsProjects) \ { currentSketch.id } :
           StoredContents(lsProjects', sid) = StoredContents(lsProjects, sid)

\* C4: when the auto-save timeout fires (a project and a sketch are open, the
\* code differs from the open sketch's content and has stayed unchanged for the
\* delay), the stored content of the open sketch equals the editor code, and
\* the stored content of every other sketch is as before.
C4_AutoSave == [][AutoSaveFire => C4_AutoSaveStep]_vars

\* C8: no failure of a storage operation leaves the mount effect or a handler
\* of App uncaught.
C8_StorageFailuresCaught == ~escaped

\* C27: isCompiling is true whenever a compilation started by handleCompile
\* (Toolbar Compile button or the editor's Ctrl/Cmd+R command) has not yet
\* finished; it becomes false only when no compilation is in flight.
C27_CompilingWhileInFlight ==
    /\ Len(compiles) > 0 => isCompiling
    /\ [][(isCompiling /\ ~isCompiling') => Len(compiles') = 0]_vars

\* C18: once the editor code has been auto-saved and the user makes no further
\* input, no further auto-save write to storage occurs until the code changes
\* again: the completion of an auto-save leaves no auto-save timeout pending,
\* and no auto-save follows an auto-save without an event in between.
C18_AutoSaveOnce ==
    [][/\ AutoSaveFire => ~autoSaveTimer'
       /\ last = "AutoSaveFire" => ~AutoSaveFire]_vars

\* the step is a click of the user that opens a project or a sketch
SelectStep ==
    \/ \E i \in 1 .. Len(projects) : handleProjectSelect(i)
    \/ \E i \in 1 .. Len(projects) :
          \E j \in 1 .. Len(projects[i].sketches) : handleSketchSelect(i, j)

\* C23: edits are never lost when leaving a sketch: when the user selects
\* another sketch or another project, the code in the editor is written to
\* storage for the sketch being left, even if the auto-save delay has not
\* elapsed since the last edit.
C23_EditsSavedOnLeave ==
    [][(/\ SelectStep
        /\ currentSketch.id \in AllSketchIds(lsProjects)
        /\ currentSketch'.id # currentSketch.id)
          => StoredContents(lsProjects', currentSketch.id) = { code }]_vars

\* every sketch of the in-memory project list that is stored shows the
\* content storage holds for it
ListShowsStored ==
    \A i \in 1 .. Len(projects) : \A j \in 1 .. Len(projects[i].sketches) :
        projects[i].sketches[j].id \in AllSketchIds(lsProjects) =>
            StoredContents(lsProjects, projects[i].sketches[j].id)
                = { projects[i].sketches[j].content }

\* C24: whenever a sketch is opened through handleSketchSelect or
\* handleProjectSelect, the editor code becomes that sketch's content as held
\* in storage, including content written to storage when the sketch was last
\* left; the in-memory project list never shows older content than storage.
C24_OpensStoredContent ==
    /\ [][(SelectStep /\ currentSketch'.id \in AllSketchIds(lsProjects'))
             => StoredContents(lsProjects', currentSketch'.id) = { code' }]_vars
    /\ []ListShowsStored

\* the projects a step adds to the stored list, and those it removes from it
AddedProjects == ProjectIds(lsProjects') \ ProjectIds(lsProjects)
RemovedProjects == ProjectIds(lsProjects) \ ProjectIds(lsProjects')

\* the step is a New Project of the user
NewProjectStep == \E name \in Names : handleNewProject(name)

\* the step is a confirmed delete of a project by the user
DeleteProjectStep == \E i \in 1 .. Len(projects) : handleDeleteProject(i)

\* C11 as stated: a project is added to the stored list only by New Project
\* and removed from it only by a confirmed delete; no other event (mounting,
\* timers, editing, switching) adds or removes a project.
C11_OnlyUserActions ==
    [][/\ AddedProjects # {} => NewProjectStep
       /\ RemovedProjects # {} => DeleteProjectStep]_vars

\* C11: a project is added to the stored list only by New Project or by the
\* mount effect when it finds no stored project (it then creates the one
\* default project), each adding exactly one project; a project is removed
\* only by a confirmed delete, which removes exactly one; no other event adds
\* or removes a project.
C11_OnlyUserActionsOrFirstMount ==
    [][/\ AddedProjects # {} =>
              /\ NewProjectStep \/ (Mount /\ Len(lsProjects) = 0)
              /\ Cardinality(AddedProjects) = 1
              /\ RemovedProjects = {}
       /\ RemovedProjects # {} =>
              /\ DeleteProjectStep
              /\ Cardinality(RemovedProjects) = 1
              /\ AddedProjects = {}]_vars

\* the default project of the first mount is stored next to a project the
\* user has made with New Project
C11_Witness ==
    /\ Len(lsProjects) = 2
    /\ lsProjects[1].name = DefaultProjectName
    /\ lsProjects[2].name \in Names
    /\ last = "handleNewProject"

\* what the continuation of the import of imports[k] is to do: the project gets
\* one more sketch, named as the file and storing the file's text, that sketch
\* is open in the editor, and every sketch stored before is as it was
C12_ImportStep(k) ==
    LET e == imports[k]
        before == ProjectById(lsProjects, e.pid).sketches
        after == ProjectById(lsProjects', e.pid).sketches
    IN  /\ Len(after) = Len(before) + 1
        /\ SubSeq(after, 1, Len(before)) = before
        /\ after[Len(after)].name = e.name
        /\ after[Len(after)].content = e.content
        /\ currentSketch'.id = after[Len(after)].id
        /\ code' = e.content
        /\ \A i \in 1 .. Len(lsProjects) :
              lsProjects[i].id # e.pid => lsProjects'[i] = lsProjects[i]

\* C12: importing a file into the current project adds exactly one new sketch
\* whose name is the file name and whose stored content is the file's text,
\* opens that sketch in the editor, and leaves the stored content of every
\* sketch that existed before unchanged, whatever names those sketches have.
C12_Import ==
    [][\A k \in 1 .. Len(imports) :
          (ImportLoaded(k) /\ ~escaped') => C12_ImportStep(k)]_vars

----------------------------------------------------------------------------
(* App.tsx: the timers and the handlers of the editing side *)

\* the variables the editing side leaves alone unless it sets the code
projectSide == <<storageVars, mounted, projects, currentProject, currentSketch,
                 expandedProjects, imports, escaped, utilVars>>

\* the analysis delay has passed since code changed last: the timeout of the
\* analysis effect, if one is pending, runs its callback
AnalysisDelay ==
    /\ mounted /\ ~escaped
    /\ ~codeSettled
    /\ codeSettled' = TRUE
    /\ analysisTimer' = << >>
    /\ IF Len(analysisTimer) > 0
       THEN /\ errors' = analyze(analysisTimer[Len(analysisTimer)])
            /\ realTimeTimer' = RealTimeEffect(code)
       ELSE UNCHANGED <<errors, realTimeTimer>>
    /\ UNCHANGED <<projectSide, code, autoSaveTimer, last, realTimeErrors, compiles,
                   isCompiling, aiSuggestions, showAIPanel, isApplyingFix, fixTimers,
                   closeTimers, appliedSuggestions, suggestionsMade, showAIAssistant,
                   assistantSuggestions, assistantTimers, ranSince>>

\* the timeout of CodeEditor's real-time effect fires; handleRealTimeError
\* stores the errors, App renders and the effect sets the timeout again
RealTimeFire ==
    /\ mounted /\ ~escaped
    /\ Len(realTimeTimer) > 0
    /\ IF Len(Head(realTimeTimer)) > 0
       THEN /\ realTimeErrors' = analyzeCodeRealTime(Head(realTimeTimer))
            /\ realTimeTimer' = RealTimeEffect(code)
       ELSE /\ realTimeTimer' = Tail(realTimeTimer)
            /\ UNCHANGED realTimeErrors
    /\ UNCHANGED <<projectSide, code, autoSaveTimer, last, errors, analysisTimer,
                   compiles, isCompiling, aiSuggestions, showAIPanel, isApplyingFix,
                   fixTimers, closeTimers, appliedSuggestions, suggestionsMade, showAIAssistant,
                   assistantSuggestions, assistantTimers, codeSettled, ranSince>>

\* handleCompile up to its await, in a render whose code is c
handleCompileIn(c) ==
    /\ mounted /\ ~escaped
    /\ Len(compiles) < MaxCompiles
    /\ isCompiling' = TRUE
    /\ compiles' = Append(compiles, c)
    /\ realTimeTimer' = RealTimeEffect(code)
    /\ UNCHANGED <<projectSide, code, autoSaveTimer, last, errors, realTimeErrors,
                   analysisTimer, aiSuggestions, showAIPanel, isApplyingFix, fixTimers,
                   closeTimers, appliedSuggestions, suggestionsMade, showAIAssistant,
                   assistantSuggestions, assistantTimers, codeSettled, ranSince>>

\* the Toolbar's Compile button, disabled while isCompiling, calls the
\* handleCompile of the latest render
handleCompile == ~isCompiling /\ handleCompileIn(code)

\* the editor's Ctrl/Cmd+R command, added once when the editor mounts, calls
\* the onCompile of the render of that time whatever isCompiling is: its code
\* is the initial '' or the content the sketch was opened with
compileCommand ==
    \E c \in { EmptyContent, currentSketch.content } : handleCompileIn(c)

\* ArduinoCompiler.compile resolves (1000 ms) and handleCompile goes on
CompileDone ==
    /\ mounted /\ ~escaped
    /\ Len(compiles) > 0
    /\ errors' = analyze(Head(compiles))
    /\ isCompiling' = FALSE
    /\ compiles' = Tail(compiles)
    /\ ranSince' = TRUE
    /\ realTimeTimer' = RealTimeEffect(code)
    /\ UNCHANGED <<projectSide, code, autoSaveTimer, last, realTimeErrors,
                   analysisTimer, aiSuggestions, showAIPanel, isApplyingFix, fixTimers,
                   closeTimers, appliedSuggestions, suggestionsMade, showAIAssistant,
                   assistantSuggestions, assistantTimers, codeSettled>>

\* allErrors.filter: an error stays when no earlier one has its line and message
RECURSIVE uniqueErrorsFrom(_, _)
uniqueErrorsFrom(all, i) ==
    IF i > Len(all) THEN << >>
    ELSE (IF \E j \in 1 .. (i - 1) :
                all[j].line = all[i].line /\ all[j].message = all[i].message
          THEN << >> ELSE << all[i] >>)
         \o uniqueErrorsFrom(all, i + 1)

handleVerify ==
    /\ mounted /\ ~escaped
    /\ errors' = uniqueErrorsFrom(realTimeErrors \o analyze(code), 1)
    /\ ranSince' = TRUE
    /\ realTimeTimer' = RealTimeEffect(code)
    /\ UNCHANGED <<projectSide, code, autoSaveTimer, last, realTimeErrors,
                   analysisTimer, compiles, isCompiling, aiSuggestions, showAIPanel,
                   isApplyingFix, fixTimers, closeTimers, appliedSuggestions, suggestionsMade,
                   showAIAssistant, assistantSuggestions, assistantTimers, codeSettled>>

\* The suggestions of the App are objects compared by identity (s !== suggestion),
\* so each carries the identity of its object in the field id; the objects
\* AIAssistant creates are never put into the list and carry 0.
SuggestionIds(list) == { list[k].id : k \in 1 .. Len(list) }

\* the identities of the next n objects made
FreshIds(n) == [k \in 1 .. n |-> suggestionsMade + k]

\* the objects made for the suggestions of a list
WithIds(fixes, ids) ==
    [k \in 1 .. Len(fixes) |->
        [id |-> ids[k], line |-> fixes[k].line, original |-> fixes[k].original,
         fixed |-> fixes[k].fixed, explanation |-> fixes[k].explanation]]

\* AIHelper.getSmartArduinoSuggestions(code): utils/aiHelper.ts defines no such
\* method, so the call in handleAutoFix throws a TypeError that its catch
\* clause handles ("absent"); a build whose helper has the method is taken
\* to get the empty list from it ("none")
SmartOutcomes == { "absent", "none" }

\* AIPanel's state after a render: it starts empty whenever the panel mounts
PanelStateAfter(shown) == IF shown /\ showAIPanel THEN appliedSuggestions ELSE {}

handleAutoFix(smart) ==
    /\ mounted /\ ~escaped
    /\ IF Len(errors) = 0
       THEN UNCHANGED <<aiSuggestions, showAIPanel, appliedSuggestions, suggestionsMade>>
       ELSE LET suggestions == analyzeAndFix(code, errors, "none").value
                valid       == SelectSeq(suggestions,
                                         LAMBDA s : validateSuggestion(code, s))
                validObjs   == WithIds(valid, FreshIds(Len(valid)))
                contextual  == getContextualSuggestions(code)
                moreObjs    == WithIds(contextual,
                                       [k \in 1 .. Len(contextual) |->
                                           suggestionsMade + Len(valid) + k])
            IN  IF Len(valid) = 0
                THEN /\ showAIPanel' = FALSE
                     /\ appliedSuggestions' = {}
                     /\ UNCHANGED <<aiSuggestions, suggestionsMade>>
                ELSE IF smart = "absent"
                THEN /\ suggestionsMade + Len(valid) <= MaxSuggestions
                     /\ suggestionsMade' = suggestionsMade + Len(valid)
                     /\ aiSuggestions' = validObjs
                     /\ showAIPanel' = FALSE
                     /\ appliedSuggestions' = {}
                ELSE /\ suggestionsMade + Len(valid) + Len(contextual) <= MaxSuggestions
                     /\ suggestionsMade' = suggestionsMade + Len(valid) + Len(contextual)
                     /\ aiSuggestions' = validObjs \o moreObjs
                     /\ showAIPanel' = TRUE
                     /\ appliedSuggestions' = PanelStateAfter(TRUE)
    /\ realTimeTimer' = RealTimeEffect(code)
    /\ UNCHANGED <<projectSide, code, autoSaveTimer, last, errors, realTimeErrors,
                   analysisTimer, compiles, isCompiling, isApplyingFix, fixTimers,
                   closeTimers, showAIAssistant, assistantSuggestions,
                   assistantTimers, codeSettled, ranSince>>

\* lines with line number n (from 1) replaced by the text
withLine(lines, n, text) == [lines EXCEPT ![n] = text]

\* the code handleApplyFix makes of the code and a suggestion for line 1 or a
\* later line: past the last line the replacement is appended to the last
\* line, otherwise it takes the place of the whole target line
appliedCode(text, suggestion) ==
    LET appended(lines) ==
            join(withLine(lines, Len(lines),
                          lines[Len(lines)] \o "\n" \o suggestion.fixed), "\n")
        replaced(lines) == join(withLine(lines, suggestion.line, suggestion.fixed), "\n")
        made(lines) == IF suggestion.line > Len(lines) THEN appended(lines)
                       ELSE replaced(lines)
    IN  made(split(text, "\n"))

handleApplyFixFlagLeftSet(suggestion) ==
    LET appends == suggestion.line > Len(split(code, "\n"))
        newCode == appliedCode(code, suggestion)
    IN  IF suggestion.line < 1
        THEN /\ isApplyingFix' = TRUE
             /\ realTimeTimer' = RealTimeEffect(code)
             /\ UNCHANGED fixTimers
        ELSE /\ Len(fixTimers) < MaxFixTimers
             /\ Len(newCode) <= MaxCodeLen
             /\ isApplyingFix' = TRUE
             /\ fixTimers' = Append(fixTimers,
                                    [newCode    |-> newCode,
                                     suggestion |-> suggestion.id,
                                     closes     |-> ~appends /\ Len(aiSuggestions) <= 1])
             /\ UNCHANGED realTimeTimer

\* handleApplyFix(suggestion) up to its return: the flag and the timeout it
\* leaves behind.  The callback of the timeout closes over the new code, the
\* suggestion and the list aiSuggestions of the render the handler belongs to.
handleApplyFix(suggestion) ==
    LET appends == suggestion.line > Len(split(code, "\n"))
        newCode == appliedCode(code, suggestion)
    IN  IF suggestion.line < 1
        THEN /\ isApplyingFix' = FALSE
             /\ realTimeTimer' = RealTimeEffect(code)
             /\ UNCHANGED fixTimers
        ELSE /\ Len(fixTimers) < MaxFixTimers
             /\ Len(newCode) <= MaxCodeLen
             /\ isApplyingFix' = TRUE
             /\ fixTimers' = Append(fixTimers,
                                    [newCode    |-> newCode,
                                     suggestion |-> suggestion.id,
                                     closes     |-> ~appends /\ Len(aiSuggestions) <= 1])
             /\ UNCHANGED realTimeTimer

\* AIPanel.handleApply(index, suggestion): the Apply button of a suggestion
\* that is not marked as applied
PanelApply(index) ==
    /\ mounted /\ ~escaped
    /\ showAIPanel
    /\ index \in 1 .. Len(aiSuggestions)
    /\ index \notin appliedSuggestions
    /\ handleApplyFix(aiSuggestions[index])
    /\ appliedSuggestions' = appliedSuggestions \cup { index }
    /\ UNCHANGED <<projectSide, suggestionsMade, code, autoSaveTimer, last, errors, realTimeErrors,
                   analysisTimer, compiles, isCompiling, aiSuggestions, showAIPanel,
                   closeTimers, showAIAssistant, assistantSuggestions,
                   assistantTimers, codeSettled, ranSince>>

\* the onClose of the AIPanel, which shows its button while it has suggestions
ClosePanel ==
    /\ mounted /\ ~escaped
    /\ showAIPanel
    /\ Len(aiSuggestions) > 0
    /\ showAIPanel' = FALSE
    /\ appliedSuggestions' = {}
    /\ realTimeTimer' = RealTimeEffect(code)
    /\ UNCHANGED <<projectSide, suggestionsMade, code, autoSaveTimer, last, errors, realTimeErrors,
                   analysisTimer, compiles, isCompiling, aiSuggestions, isApplyingFix,
                   fixTimers, closeTimers, showAIAssistant, assistantSuggestions,
                   assistantTimers, codeSettled, ranSince>>

\* the timeout handleApplyFix has set fires (100 ms)
FixTimerFire ==
    /\ mounted /\ ~escaped
    /\ Len(fixTimers) > 0
    /\ LET t == Head(fixTimers)
       IN  /\ code' = t.newCode
           /\ isApplyingFix' = FALSE
           /\ aiSuggestions' = SelectSeq(aiSuggestions, LAMBDA s : s.id # t.suggestion)
           /\ IF t.closes
              THEN /\ closeTimers < MaxCloseTimers
                   /\ closeTimers' = closeTimers + 1
              ELSE UNCHANGED closeTimers
           /\ autoSaveTimer' = IF t.newCode = code THEN autoSaveTimer
                               ELSE AutoSaveEffect(currentProject, currentSketch, t.newCode)
           /\ CodeEffects(t.newCode)
    /\ fixTimers' = Tail(fixTimers)
    /\ realTimeTimer' = RealTimeEffect(Head(fixTimers).newCode)
    /\ UNCHANGED <<projectSide, last, errors, realTimeErrors, compiles, isCompiling,
                   showAIPanel, appliedSuggestions, suggestionsMade, showAIAssistant,
                   assistantSuggestions>>

\* the timeout that closes the panel fires (500 ms)
CloseTimerFire ==
    /\ mounted /\ ~escaped
    /\ closeTimers > 0
    /\ closeTimers' = closeTimers - 1
    /\ showAIPanel' = FALSE
    /\ aiSuggestions' = << >>
    /\ appliedSuggestions' = {}
    /\ realTimeTimer' = RealTimeEffect(code)
    /\ UNCHANGED <<projectSide, suggestionsMade, code, autoSaveTimer, last, errors, realTimeErrors,
                   analysisTimer, compiles, isCompiling, isApplyingFix, fixTimers,
                   showAIAssistant, assistantSuggestions, assistantTimers,
                   codeSettled, ranSince>>

\* onToggleAI: the AIAssistant mounts, with an empty list and its effect
\* run on the code, or unmounts, and what its analyses resolve to is dropped
ToggleAI ==
    /\ mounted /\ ~escaped
    /\ showAIAssistant' = ~showAIAssistant
    /\ assistantSuggestions' = << >>
    /\ IF ~showAIAssistant /\ Len(code) > 10
       THEN assistantTimers' = << code >>
       ELSE assistantTimers' = << >>
    /\ realTimeTimer' = RealTimeEffect(code)
    /\ UNCHANGED <<projectSide, code, autoSaveTimer, last, errors, realTimeErrors,
                   analysisTimer, compiles, isCompiling, aiSuggestions, showAIPanel,
                   isApplyingFix, fixTimers, closeTimers, appliedSuggestions, suggestionsMade,
                   codeSettled, ranSince>>

\* the promise of generateSmartSuggestions resolves (500 ms)
AssistantAnalyzed ==
    /\ mounted /\ ~escaped
    /\ Len(assistantTimers) > 0
    /\ assistantSuggestions' = generateSmartSuggestions(Head(assistantTimers))
    /\ assistantTimers' = Tail(assistantTimers)
    /\ UNCHANGED <<projectSide, code, autoSaveTimer, last, errors, realTimeErrors,
                   analysisTimer, realTimeTimer, compiles, isCompiling, aiSuggestions,
                   showAIPanel, isApplyingFix, fixTimers, closeTimers,
                   appliedSuggestions, suggestionsMade, showAIAssistant, codeSettled, ranSince>>

\* AIAssistant.handleApplySuggestion(suggestion): a new AIFixSuggestion object
\* is handed to handleApplyFix
AssistantApply(k) ==
    /\ mounted /\ ~escaped
    /\ showAIAssistant
    /\ k \in 1 .. Len(assistantSuggestions)
    /\ assistantSuggestions[k].code # ""
    /\ LET hint == assistantSuggestions[k]
       IN  handleApplyFix([id          |-> 0,
                           line        |-> hint.line,
                           original    |-> lineOrEmpty(split(code, "\n"), hint.line),
                           fixed       |-> hint.code,
                           explanation |-> hint.description])
    /\ UNCHANGED <<projectSide, code, autoSaveTimer, last, errors, realTimeErrors,
                   analysisTimer, compiles, isCompiling, aiSuggestions, showAIPanel,
                   closeTimers, appliedSuggestions, suggestionsMade, showAIAssistant,
                   assistantSuggestions, assistantTimers, codeSettled, ranSince>>

----------------------------------------------------------------------------
(* The App with its editing side: a sketch is open and the user edits,      *)
(* checks and fixes its code                                                *)

\* texts the user leaves in the editor: nothing, two statements without
\* their semicolons, one statement
TwoStatements == "a = 1\nb = 2"
OneStatement  == "x=1"
EditTexts == { EmptyContent, TwoStatements }

\* the App right after its mount effect has opened the only stored project,
\* whose sketch holds one of the texts
InitEdit ==
    \E c \in EditTexts :
        LET p == [id |-> 1, name |-> "a",
                  sketches |-> << newSketch(2, "a.ino", c) >>]
        IN  /\ lsProjects = << p >>
            /\ lsCurrent = 1
            /\ lsCorrupt = FALSE
            /\ nextId = 3
            /\ mounted = TRUE
            /\ projects = << p >>
            /\ currentProject = p
            /\ currentSketch = p.sketches[1]
            /\ code = c
            /\ autoSaveTimer = FALSE
            /\ expandedProjects = {}
            /\ imports = << >>
            /\ escaped = FALSE
            /\ errors = << >>
            /\ realTimeErrors = << >>
            /\ analysisTimer = (IF c # EmptyContent THEN << c >> ELSE << >>)
            /\ realTimeTimer = << c >>
            /\ compiles = << >>
            /\ isCompiling = FALSE
            /\ aiSuggestions = << >>
            /\ showAIPanel = FALSE
            /\ isApplyingFix = FALSE
            /\ fixTimers = << >>
            /\ closeTimers = 0
            /\ appliedSuggestions = {}
            /\ suggestionsMade = 0
            /\ showAIAssistant = TRUE
            /\ assistantSuggestions = << >>
            /\ assistantTimers = IF Len(c) > 10 THEN << c >> ELSE << >>
            /\ codeSettled = FALSE
            /\ ranSince = FALSE
            /\ UtilIdle
            /\ last = "mount"

\* The editing side is checked one concern at a time.  Each specification
\* below starts from InitEdit and takes the handlers and timeouts its concern
\* involves, so that each of its behaviours is a behaviour of the App.

\* editing and checking: the user types, verifies and compiles
NextEdit ==
    \/ \E newCode \in EditTexts : handleCodeChange(newCode)
    \/ AnalysisDelay
    \/ RealTimeFire
    \/ handleCompile
    \/ compileCommand
    \/ CompileDone
    \/ handleVerify

SpecEdit == InitEdit /\ [][NextEdit]_vars

\* fixing: the sketch holds the two statements; the user types them again
\* after a fix has changed them
InitFix == InitEdit /\ code = TwoStatements

\* fixing from the AIPanel: the user asks for fixes and applies them
NextFix ==
    \/ handleCodeChange(TwoStatements)
    \/ AnalysisDelay
    \/ \E smart \in SmartOutcomes : handleAutoFix(smart)
    \/ \E index \in 1 .. Len(aiSuggestions) : PanelApply(index)
    \/ ClosePanel
    \/ FixTimerFire
    \/ CloseTimerFire

SpecFix == InitFix /\ [][NextFix]_vars

\* fixing from the AIAssistant: the user opens it and applies its hints
NextAssist ==
    \/ handleCodeChange(TwoStatements)
    \/ ToggleAI
    \/ AssistantAnalyzed
    \/ \E k \in 1 .. Len(assistantSuggestions) : AssistantApply(k)
    \/ FixTimerFire
    \/ CloseTimerFire

SpecAssist == InitFix /\ [][NextAssist]_vars

\* suggestions handleApplyFix may be handed: any line number from 0 to one
\* past the lines of the sketch, and a short replacement
AnySuggestions ==
    { [id |-> 0, line |-> n, original |-> "", fixed |-> "c;", explanation |-> ""] :
        n \in 0 .. 3 }

\* handleApplyFix called with any suggestion; called with no suggestion at
\* all it throws in its try block and its catch clause resets the flag
handleApplyFixCalled(suggestion, throws) ==
    /\ mounted /\ ~escaped
    /\ IF throws
       THEN /\ isApplyingFix' = FALSE
            /\ realTimeTimer' = RealTimeEffect(code)
            /\ UNCHANGED fixTimers
       ELSE handleApplyFix(suggestion)
    /\ UNCHANGED <<projectSide, code, autoSaveTimer, last, errors, realTimeErrors,
                   analysisTimer, compiles, isCompiling, aiSuggestions, showAIPanel,
                   closeTimers, appliedSuggestions, suggestionsMade, showAIAssistant,
                   assistantSuggestions, assistantTimers, codeSettled, ranSince>>

\* applying fixes: the user types one of two texts, handleApplyFix is called
\* with any suggestion, and the timeouts fire
NextApply ==
    \/ \E newCode \in { TwoStatements, OneStatement } : handleCodeChange(newCode)
    \/ \E suggestion \in AnySuggestions, throws \in BOOLEAN :
          handleApplyFixCalled(suggestion, throws)
    \/ FixTimerFire
    \/ CloseTimerFire

\* a timeout that has been set fires: the browser runs the callback of every
\* pending setTimeout
SpecApply ==
    InitFix /\ [][NextApply]_vars /\ WF_vars(FixTimerFire) /\ WF_vars(CloseTimerFire)

----------------------------------------------------------------------------
(* utils/serialUpload.ts: SerialUploader *)

\* What a method resolves to is written "true", "false" or "void", and
\* "rejected" stands for a promise that rejects.

\* what connect() resolves to: its catch clause turns a failure into false
connectReturns(failure) == IF failure = "none" THEN "true" ELSE "false"

uploadReturnsUncaught(failure) == IF failure = "none" THEN "true" ELSE "rejected"

\* what upload() resolves to: its catch clause turns a failure into false
uploadReturns(failure) == IF failure = "none" THEN "true" ELSE "false"

\* the messages upload() passes to onProgress
uploadProgress(failure) ==
    IF failure = "notConnected"
    THEN << "Upload failed: Error: Not connected to Arduino" >>
    ELSE IF failure = "write"
    THEN << "Uploading sketch to Arduino...", "Upload failed: NetworkError" >>
    ELSE << "Uploading sketch to Arduino...", "Upload complete!" >>

\* the characters of one byte in UTF-8, in the order of their codes: those
\* from the space (32) to the underscore (95), and those from a (97) to the
\* tilde (126)
SpaceToUnderscore ==
    " !\"#$%&'()*+,-./0123456789:;<=>?@ABCDEFGHIJKLMNOPQRSTUVWXYZ[\\]^_"
SmallAToTilde == "abcdefghijklmnopqrstuvwxyz{|}~"

\* the byte TextEncoder writes for a character of one byte
byteOf(ch) ==
    IF ch = "\t" THEN 9
    ELSE IF ch = "\n" THEN 10
    ELSE IF ch = "\f" THEN 12
    ELSE IF ch = "\r" THEN 13
    ELSE IF includes(SpaceToUnderscore, ch) THEN 32 + indexOf(SpaceToUnderscore, ch)
    ELSE 97 + indexOf(SmallAToTilde, ch)

\* new TextEncoder().encode(text): the bytes of the text, in order
encode(text) == [i \in 1 .. Len(text) |-> byteOf(charAt(text, i - 1))]

uploadWritesUnchecked(text, failure) == << encode(text) >>

\* the payloads upload() hands to writer.write(), in order: none when it throws
\* for the missing port or writer, otherwise the one write of the encoded code,
\* which is not repeated when it rejects
uploadWrites(text, failure) ==
    IF failure = "notConnected" THEN << >> ELSE << encode(text) >>

\* the state every action of the SerialUploader leaves alone
serialFrame == <<storageVars, projVars, editVars, serialSupported, aiCall, last>>

\* SerialUploader.connect(): Web Serial may be missing, the user may dismiss
\* the port chooser ("request"), the port may fail to open ("open"); a port
\* that opens may lack a readable or a writable stream
connect(failure, readable, writable) ==
    /\ failure \in (IF serialSupported THEN { "none", "request", "open" }
                    ELSE { "unsupported" })
    /\ port' = IF failure = "none" THEN "open"
               ELSE IF failure = "open" THEN "closed"
               ELSE port
    /\ reader' = IF failure # "none" THEN reader
                 ELSE IF readable THEN "reader" ELSE "null"
    /\ writer' = IF failure # "none" THEN writer
                 ELSE IF writable THEN "writer" ELSE "null"
    /\ serialLast' = [op |-> "connect", text |-> "", failure |-> failure,
                      returned |-> connectReturns(failure),
                      reports |-> FALSE, progress |-> << >>, writes |-> << >>]
    /\ UNCHANGED serialFrame

\* SerialUploader.disconnect(): reader.cancel(), writer.close() or
\* port.close() may reject, which ends the method where it is
disconnect(failure) ==
    /\ failure \in { "none" }
                   \cup (IF reader # "null" THEN { "cancel" } ELSE {})
                   \cup (IF writer # "null" THEN { "closeWriter" } ELSE {})
                   \cup (IF port # "null" THEN { "closePort" } ELSE {})
    /\ reader' = IF failure = "cancel" THEN reader ELSE "null"
    /\ writer' = IF failure \in { "cancel", "closeWriter" } THEN writer ELSE "null"
    /\ port' = IF failure = "none" THEN "null" ELSE port
    /\ serialLast' = [op |-> "disconnect", text |-> "", failure |-> failure,
                      returned |-> "void", reports |-> FALSE, progress |-> << >>,
                      writes |-> << >>]
    /\ UNCHANGED serialFrame

\* SerialUploader.upload(code, onProgress): without a port or a writer it
\* throws at once; writer.write() may reject; onProgress is optional
upload(text, failure, reports) ==
    /\ failure \in (IF port = "null" \/ writer = "null" THEN { "notConnected" }
                    ELSE { "none", "write" })
    /\ serialLast' = [op |-> "upload", text |-> text, failure |-> failure,
                      returned |-> uploadReturns(failure),
                      reports |-> reports,
                      progress |-> IF reports THEN uploadProgress(failure) ELSE << >>,
                      writes |-> uploadWrites(text, failure)]
    /\ UNCHANGED <<serialFrame, port, reader, writer>>

\* SerialUploader.isConnected()
isConnected == port # "null"

InitSerial ==
    /\ StorageEmpty
    /\ lsCorrupt = FALSE
    /\ AppIdle
    /\ serialSupported \in BOOLEAN
    /\ SerialIdle
    /\ NoCall
    /\ last = NoOp

NextSerial ==
    \/ \E failure \in { "none", "unsupported", "request", "open" },
          readable \in BOOLEAN, writable \in BOOLEAN :
          connect(failure, readable, writable)
    \/ \E failure \in { "none", "cancel", "closeWriter", "closePort" } :
          disconnect(failure)
    \/ \E text \in UserTexts, failure \in { "none", "notConnected", "write" },
          reports \in BOOLEAN :
          upload(text, failure, reports)

SpecSerial == InitSerial /\ [][NextSerial]_vars

\* errors.some(e => e.severity === 'error'): the test of handleUpload and the
\* hasErrors the App passes to the Toolbar
hasErrors == \E k \in 1 .. Len(errors) : errors[k].severity = "error"

\* App.handleUpload, from the click on the Toolbar's Upload button (enabled
\* while nothing compiles and the errors state holds no error) to its end:
\* it returns when the errors state holds an error; it connects first when the
\* uploader is not connected, and returns when that fails; it uploads the
\* code of its render
handleUpload(connectFailure, readable, writable, uploadFailure) ==
    /\ mounted /\ ~escaped
    /\ ~isCompiling
    /\ ~hasErrors
    /\ IF isConnected
       THEN upload(code, uploadFailure, TRUE)
       ELSE /\ connectFailure \in (IF serialSupported THEN { "none", "request", "open" }
                                   ELSE { "unsupported" })
            /\ port' = IF connectFailure = "none" THEN "open"
                       ELSE IF connectFailure = "open" THEN "closed"
                       ELSE port
            /\ reader' = IF connectFailure # "none" THEN reader
                         ELSE IF readable THEN "reader" ELSE "null"
            /\ writer' = IF connectFailure # "none" THEN writer
                         ELSE IF writable THEN "writer" ELSE "null"
            /\ IF connectFailure # "none"
               THEN serialLast' = [op |-> "connect", text |-> "",
                                   failure |-> connectFailure,
                                   returned |-> connectReturns(connectFailure),
                                   reports |-> FALSE, progress |-> << >>,
                                   writes |-> << >>]
               ELSE /\ uploadFailure \in (IF writable THEN { "none", "write" }
                                           ELSE { "notConnected" })
                    /\ serialLast' = [op |-> "upload", text |-> code,
                                      failure |-> uploadFailure,
                                      returned |-> uploadReturns(uploadFailure),
                                      reports |-> TRUE,
                                      progress |-> uploadProgress(uploadFailure),
                                      writes |-> uploadWrites(code, uploadFailure)]
            /\ UNCHANGED serialFrame

\* uploading: the user types, the analysis delay passes, the user uploads
NextUpload ==
    \/ \E newCode \in EditTexts : handleCodeChange(newCode)
    \/ AnalysisDelay
    \/ RealTimeFire
    \/ \E connectFailure \in { "none", "request", "open" },
          readable \in BOOLEAN, writable \in BOOLEAN,
          uploadFailure \in { "none", "notConnected", "write" } :
          handleUpload(connectFailure, readable, writable, uploadFailure)

SpecUpload == InitEdit /\ [][NextUpload]_vars

\* C26: App.handleUpload writes code to the serial port only if
\* ArduinoCompiler.analyze of that same code yields no diagnostic of severity
\* 'error', whatever edits preceded the upload request.
C26_OnlyCleanCodeIsUploaded ==
    (serialLast.op = "upload" /\ Len(serialLast.writes) > 0)
        => LET clean(errs) == \A k \in 1 .. Len(errs) : errs[k].severity # "error"
           IN  clean(analyze(serialLast.text))

----------------------------------------------------------------------------
(* Claim about SerialUploader *)

\* C7: connect, upload and disconnect never reject; after a failure connect
\* and upload have returned false, and upload has passed a message about the
\* failure to the onProgress it was given
C7_NeverRejects ==
    /\ serialLast.returned # "rejected"
    /\ (serialLast.op \in { "connect", "upload" } /\ serialLast.failure # "none")
           => serialLast.returned = "false"
    /\ (serialLast.op = "upload" /\ serialLast.failure # "none" /\ serialLast.reports)
           => /\ Len(serialLast.progress) > 0
              /\ startsWith(serialLast.progress[Len(serialLast.progress)],
                            "Upload failed")

\* an upload on an open connection whose write has failed
C7_Witness ==
    /\ serialLast.op = "upload"
    /\ serialLast.failure = "write"
    /\ serialLast.reports
    /\ port = "open"
    /\ serialLast.returned = "false"

\* C22: isConnected() returns true only when a usable connection exists: it is
\* false after a connect() that returned false and false after disconnect()
\* has returned, so that handleUpload requests a connection again on the next
\* upload attempt after a failed one.
C22_ConnectedOnlyWhenUsable ==
    /\ (serialLast.op = "connect" /\ serialLast.returned = "false") => ~isConnected
    /\ serialLast.op = "disconnect" => ~isConnected
    /\ isConnected => port = "open"

\* the character of a byte below 128
charOf(b) ==
    IF b = 9 THEN "\t"
    ELSE IF b = 10 THEN "\n"
    ELSE IF b = 12 THEN "\f"
    ELSE IF b = 13 THEN "\r"
    ELSE IF b >= 32 /\ b <= 95 THEN charAt(SpaceToUnderscore, b - 32)
    ELSE charAt(SmallAToTilde, b - 97)

\* the text a sequence of bytes below 128 stands for
RECURSIVE decode(_)
decode(bytes) == IF Len(bytes) = 0 THEN "" ELSE charOf(Head(bytes)) \o decode(Tail(bytes))

\* C13: upload() on an uploader that has a port and a writer performs exactly
\* one write, whose payload is the text encoding of the whole code: nothing is
\* written before or after it and a write that fails is not retried; without
\* a port or without a writer upload() performs no write.
C13_OneWriteOfTheCode ==
    serialLast.op = "upload" =>
        IF port = "null" \/ writer = "null"
        THEN serialLast.writes = << >>
        ELSE /\ Len(serialLast.writes) = 1
             /\ Len(serialLast.writes[1]) = Len(serialLast.text)
             /\ decode(serialLast.writes[1]) = serialLast.text

\* an upload of a text of two lines on an open connection whose write failed,
\* and the bytes of that one write
C13_Witness ==
    /\ serialLast.op = "upload"
    /\ serialLast.text = TextB
    /\ serialLast.failure = "write"
    /\ port = "open" /\ writer = "writer"
    /\ serialLast.writes = << <<123, 10, 121>> >>

----------------------------------------------------------------------------
(* utils/aiHelper.ts: AIHelper.analyzeAndFix called with any code and errors *)

BraceLeftOpen == "void setup(){}\nvoid loop(){"

\* the codes of the calls
CallTexts == { EmptyContent, OneStatement, TwoStatements, BraceLeftOpen, DefaultContent }

\* the errors of the calls: those the App has found in one of the codes, which
\* need not be the code of the call
CallErrors == { analyze(t) : t \in CallTexts }

InitAI ==
    /\ StorageEmpty
    /\ lsCorrupt = FALSE
    /\ AppIdle
    /\ serialSupported = TRUE
    /\ SerialIdle
    /\ aiCall \in [text : CallTexts, errs : CallErrors, fault : Faults,
                   settled : { FALSE }, result : { NoFixes }, applied : { NotApplied }]
    /\ last = NoOp

\* the call settles
analyzeAndFixSettles ==
    /\ ~aiCall.settled
    /\ aiCall' = [aiCall EXCEPT !.settled = TRUE,
                                !.result = analyzeAndFix(aiCall.text, aiCall.errs,
                                                         aiCall.fault)]
    /\ UNCHANGED <<storageVars, projVars, editVars, serialSupported, port, reader,
                   writer, serialLast, last>>

NextAI == analyzeAndFixSettles

SpecAI == InitAI /\ [][NextAI]_vars

----------------------------------------------------------------------------
(* utils/arduinoCompiler.ts: ArduinoCompiler.analyze called with any sketch, *)
(* and AIHelper.analyzeAndFix called with the sketch and the errors found   *)

\* lines a sketch may be made of
SketchLines ==
    { "", "{", "}", "}}{", "void setup() {", "  void loop() {}",
      "// void setup()", "x = 1", "foo(1 " }

\* the sketches of up to MaxLines lines
SketchTexts ==
    { join(ls, "\n") : ls \in UNION { [1 .. n -> SketchLines] : n \in 1 .. MaxLines } }

InitAnalyze ==
    /\ StorageEmpty
    /\ lsCorrupt = FALSE
    /\ AppIdle
    /\ serialSupported = TRUE
    /\ SerialIdle
    /\ aiCall \in [text : SketchTexts, errs : { << >> }, fault : Faults,
                   settled : { FALSE }, result : { NoFixes }, applied : { NotApplied }]
    /\ last = NoOp

\* ArduinoCompiler.analyze(code) returns the errors of the sketch
analyzeReturns ==
    /\ last = NoOp
    /\ aiCall' = [aiCall EXCEPT !.errs = analyze(aiCall.text)]
    /\ last' = "analyze"
    /\ UNCHANGED <<storageVars, projVars, editVars, serialSupported, port, reader,
                   writer, serialLast>>

\* AIHelper.analyzeAndFix(code, errors) called with those errors settles
fixesSettle == last = "analyze" /\ analyzeAndFixSettles

\* handleAutoFix lists the suggestions that validateSuggestion accepts, and
\* handleApplyFix is called with the k-th suggestion while the code is the same
fixApplied(k) ==
    /\ aiCall.settled
    /\ aiCall.applied = NotApplied
    /\ k \in 1 .. Len(aiCall.result.value)
    /\ validateSuggestion(aiCall.text, aiCall.result.value[k])
    /\ aiCall' = [aiCall EXCEPT !.applied =
                     [index |-> k,
                      newCode |-> appliedCode(aiCall.text, aiCall.result.value[k])]]
    /\ UNCHANGED <<storageVars, projVars, editVars, serialSupported, port, reader,
                   writer, serialLast, last>>

NextAnalyze ==
    \/ analyzeReturns
    \/ fixesSettle
    \/ \E k \in 1 .. Len(aiCall.result.value) : fixApplied(k)

SpecAnalyze == InitAnalyze /\ [][NextAnalyze]_vars

----------------------------------------------------------------------------
(* Claim about AIHelper.analyzeAndFix *)

\* the AI-powered path of the call has thrown or yielded no suggestion
AIPathFailed ==
    LET ai == getAIPoweredFixes(aiCall.text, aiCall.errs, aiCall.fault)
    IN  ai.threw \/ Len(ai.value) = 0

\* C9: analyzeAndFix never rejects, and when its AI-powered path throws or
\* yields no suggestion it resolves to the rule-based fixes for the same code
\* and errors
C9_FallsBackToRules ==
    aiCall.settled =>
        /\ ~aiCall.result.rejected
        /\ AIPathFailed =>
               aiCall.result.value = getRuleBasedFixes(aiCall.text, aiCall.errs)

\* a call whose AI-powered path yields nothing and whose rule-based fixes
\* close the brace left open
C9_Witness ==
    /\ aiCall.settled
    /\ aiCall.fault = "none"
    /\ AIPathFailed
    /\ Len(aiCall.result.value) > 0

----------------------------------------------------------------------------
(* Claims about ArduinoCompiler.analyze *)

\* the errors of the analysed sketch whose message ends with the given text
ErrorsEnding(tail) ==
    { k \in 1 .. Len(aiCall.errs) : endsWith(aiCall.errs[k].message, tail) }

\* the only error whose message ends with tail has the message n \o tail
OnlyError(tail, n) ==
    /\ Cardinality(ErrorsEnding(tail)) = 1
    /\ \A k \in ErrorsEnding(tail) : aiCall.errs[k].message = ToString(n) \o tail

\* the number of opening and of closing braces in the analysed sketch
Opening == countMatches(aiCall.text, "{")
Closing == countMatches(aiCall.text, "}")

\* C14: analyze(code) reports 'N unclosed brace(s)' exactly when the number of
\* '{' in code exceeds the number of '}' by N > 0, reports 'N extra closing
\* brace(s)' exactly when '}' exceeds '{' by N > 0, and reports no brace error
\* when the two counts are equal; it never reports both.
C14_BraceErrors ==
    last = "analyze" =>
        /\ IF Opening > Closing
           THEN OnlyError(" unclosed brace(s)", Opening - Closing)
           ELSE ErrorsEnding(" unclosed brace(s)") = {}
        /\ IF Closing > Opening
           THEN OnlyError(" extra closing brace(s)", Closing - Opening)
           ELSE ErrorsEnding(" extra closing brace(s)") = {}

\* a sketch that closes two braces before it opens three, analysed
C14_Witness ==
    /\ last = "analyze"
    /\ aiCall.text = "}}{\n{\n{"
    /\ \E k \in 1 .. Len(aiCall.errs) : aiCall.errs[k].message = "1 unclosed brace(s)"

\* C30: every CompilationError returned by ArduinoCompiler.analyze(code) has
\* 1 <= line <= n, where n is the number of lines of code split on newline,
\* the missing setup/loop errors and the brace errors included; an 'unclosed
\* brace' error is always reported on a line that contains a '{'.
C30_ErrorsOnLinesOfTheCode ==
    last = "analyze" =>
        LET onLines(lines) ==
                \A k \in 1 .. Len(aiCall.errs) :
                    /\ aiCall.errs[k].line >= 1
                    /\ aiCall.errs[k].line <= Len(lines)
                    /\ k \in ErrorsEnding(" unclosed brace(s)")
                          => includes(lines[aiCall.errs[k].line], "{")
        IN  onLines(split(aiCall.text, "\n"))

\* a sketch of three lines with no setup and no loop, whose unclosed brace is
\* not on its last line and whose last line has an error of its own, analysed
C30_Witness ==
    /\ last = "analyze"
    /\ Len(split(aiCall.text, "\n")) = MaxLines
    /\ \E k \in ErrorsEnding(" unclosed brace(s)") : aiCall.errs[k].line < MaxLines
    /\ \E k \in 1 .. Len(aiCall.errs) :
          /\ aiCall.errs[k].line = MaxLines
          /\ k \notin ErrorsEnding(" unclosed brace(s)")
    /\ ErrorsEnding("void setup() function") # {}

\* what applying the suggestion to the lines old may make of them: the lines
\* before and after the target line stay, and so does the target line itself
\* when the suggestion is an insertion
C19_OnlyTargetReplaced(old, new, suggestion) ==
    IF suggestion.line > Len(old)
    THEN SubSeq(new, 1, Len(old)) = old
    ELSE /\ Len(new) >= Len(old)
         /\ SubSeq(new, 1, suggestion.line - 1) = SubSeq(old, 1, suggestion.line - 1)
         /\ SubSeq(new, suggestion.line + 1 + Len(new) - Len(old), Len(new))
               = SubSeq(old, suggestion.line + 1, Len(old))
         /\ suggestion.original = "" =>
               \E i \in suggestion.line .. suggestion.line + Len(new) - Len(old) :
                   includes(new[i], old[suggestion.line])

\* C19: applying a suggestion with handleApplyFix replaces only the
\* suggestion's original text at its target line by its replacement text:
\* every other line of the code is preserved, and a suggestion whose original
\* text is empty (an insertion such as a missing setup() or loop() function)
\* removes no existing text of the code.
C19_ReplacesOnlyOriginal ==
    aiCall.applied.index > 0 =>
        C19_OnlyTargetReplaced(split(aiCall.text, "\n"),
                               split(aiCall.applied.newCode, "\n"),
                               aiCall.result.value[aiCall.applied.index])

\* the errors of the analysed sketch that ask for a semicolon
SemicolonErrors ==
    { k \in 1 .. Len(aiCall.errs) :
        includes(aiCall.errs[k].message,
                 ExpectedSemicolon \o " at end of statement") }

\* the suggestions analyzeAndFix makes for the error, among those it returned
FixesFor(error) ==
    LET alone == analyzeAndFix(aiCall.text, << error >>, aiCall.fault).value
    IN  { alone[j] : j \in 1 .. Len(alone) }
        \cap { aiCall.result.value[j] : j \in 1 .. Len(aiCall.result.value) }

\* the analysed sketch with the line replaced by the text
WithLineReplaced(line, text) == join(withLine(split(aiCall.text, "\n"), line, text), "\n")

\* analyze reports an error asking for a semicolon on the line of the text
AsksForSemicolon(text, line) ==
    LET among(errs) == \E k \in 1 .. Len(errs) :
                          /\ errs[k].line = line
                          /\ includes(errs[k].message, ExpectedSemicolon)
    IN  among(analyze(text))

\* C20: for any code and any line L on which analyze reports an 'Expected ;
\* at end of statement' error, replacing line L by the fixed text of the
\* suggestion that analyzeAndFix returns for that error yields code on which
\* analyze reports no 'Expected ;' error on line L.
C20_SemicolonFixSettlesTheLine ==
    (last = "analyze" /\ aiCall.settled /\ aiCall.applied = NotApplied) =>
        \A k \in SemicolonErrors :
            \A s \in FixesFor(aiCall.errs[k]) :
                ~AsksForSemicolon(WithLineReplaced(aiCall.errs[k].line, s.fixed),
                                  aiCall.errs[k].line)

\* a sketch whose second line lacks its semicolon and a parenthesis and ends
\* with a blank: the suggestion for the semicolon is returned and the line
\* with it no longer asks for one
C20_Witness ==
    /\ last = "analyze" /\ aiCall.settled
    /\ aiCall.text = "{\nfoo(1 "
    /\ SemicolonErrors # {}
    /\ \A k \in SemicolonErrors :
         /\ aiCall.errs[k].line = 2
         /\ \E s \in FixesFor(aiCall.errs[k]) : s.fixed = "foo(1 ;"
    /\ ~AsksForSemicolon("{\nfoo(1 ;", 2)
    /\ AsksForSemicolon(aiCall.text, 2)

\* the returned list holds a suggestion for the error: for a missing
\* semicolon one that ends the error's line with it, for the others the
\* suggestion told by its explanation
HasFixFor(error) ==
    LET fixes == aiCall.result.value
    IN  IF includes(error.message, ExpectedSemicolon)
        THEN \E j \in 1 .. Len(fixes) :
                 fixes[j].line = error.line /\ endsWith(fixes[j].fixed, ";")
        ELSE IF includes(error.message, "void setup()")
        THEN \E j \in 1 .. Len(fixes) : includes(fixes[j].explanation, "setup() function")
        ELSE IF includes(error.message, "void loop()")
        THEN \E j \in 1 .. Len(fixes) : includes(fixes[j].explanation, "loop() function")
        ELSE IF includes(error.message, "unclosed brace")
        THEN \E j \in 1 .. Len(fixes) : includes(fixes[j].explanation, "closing brace")
        ELSE TRUE

\* C21: for every error in the list passed to analyzeAndFix whose message
\* matches one of the known patterns (missing semicolon, missing void setup(),
\* missing void loop(), unclosed brace), the returned list contains a
\* suggestion for that error, regardless of which other errors are in the list.
C21_EveryKnownErrorGetsAFix ==
    (last = "analyze" /\ aiCall.settled) =>
        \A k \in 1 .. Len(aiCall.errs) : HasFixFor(aiCall.errs[k])

\* some line of the analysed sketch contains the text
SomeLineContains(text) ==
    \E i \in 1 .. Len(split(aiCall.text, "\n")) :
        includes(split(aiCall.text, "\n")[i], text)

\* the errors of the analysed sketch with the given message
ErrorsSaying(message) ==
    { k \in 1 .. Len(aiCall.errs) : aiCall.errs[k].message = message }

\* C15: analyze(code) reports 'Arduino sketch must have a void setup()
\* function' exactly once when no line of code contains 'void setup()' and
\* never otherwise, and likewise the error about void loop().
C15_SetupAndLoopErrors ==
    last = "analyze" =>
        /\ Cardinality(ErrorsSaying("Arduino sketch must have a void setup() function"))
               = IF SomeLineContains("void setup()") THEN 0 ELSE 1
        /\ Cardinality(ErrorsSaying("Arduino sketch must have a void loop() function"))
               = IF SomeLineContains("void loop()") THEN 0 ELSE 1

\* a sketch whose only setup() stands in a comment and which has a loop(),
\* analysed: neither error is reported
C15_Witness ==
    /\ last = "analyze"
    /\ aiCall.text = "// void setup()\n  void loop() {}"
    /\ ErrorsSaying("Arduino sketch must have a void setup() function") = {}
    /\ ErrorsSaying("Arduino sketch must have a void loop() function") = {}

----------------------------------------------------------------------------
(* Claims about the editing side of the App *)

\* C5: once the code has stayed unchanged for the analysis delay, and no
\* verify or compile has set the errors since the code last changed, the
\* errors state is ArduinoCompiler.analyze of the current code
C5_ErrorsRecomputed ==
    (codeSettled /\ ~ranSince) => errors = analyze(code)

\* a deferred step of handleApplyFix is still to come
FixInProgress == Len(fixTimers) > 0

\* every pending timeout of the two debounced passes closes over the code
\* of the editor, and each pass has at most one timeout pending
TimersAreCurrent ==
    /\ Len(analysisTimer) <= 1
    /\ Len(realTimeTimer) <= 1
    /\ \A k \in 1 .. Len(analysisTimer) : analysisTimer[k] = code
    /\ \A k \in 1 .. Len(realTimeTimer) : realTimeTimer[k] = code

\* C17: a debounced analysis only runs on a code value that has stayed
\* unchanged for the full delay: every change of the code cancels the pending
\* timeout, at most one timeout of a pass is pending at any time, and the
\* errors a debounced pass sets are computed from the code of the editor,
\* never from a value that has been superseded.
C17_DebouncedAnalysis ==
    /\ []TimersAreCurrent
    /\ [][(AnalysisDelay /\ Len(analysisTimer) > 0) => errors' = analyze(code)]_vars
    /\ [][(RealTimeFire /\ Len(code) > 0) =>
             realTimeErrors' = analyzeCodeRealTime(code)]_vars

\* the user has typed the two statements into the editor, the code has
\* stayed for the delay and both passes have set their errors from it
C17_Witness ==
    /\ last = "handleCodeChange"
    /\ code = TwoStatements
    /\ codeSettled
    /\ analysisTimer = << >>
    /\ errors = analyze(TwoStatements)
    /\ realTimeErrors = analyzeCodeRealTime(TwoStatements)
    /\ ~ranSince

\* the suggestions the panel shows as Applied: those at the marked positions
ShownAsApplied(list, marks) ==
    { list[k].id : k \in marks \cap (1 .. Len(list)) }

PendingSuggestions ==
    { k \in 1 .. Len(aiSuggestions) :
        \E t \in 1 .. Len(fixTimers) : fixTimers[t].suggestion = aiSuggestions[k].id }

C16_FlagIsReset ==
    /\ isApplyingFix ~> ~isApplyingFix
    /\ [][\A newCode \in { TwoStatements, OneStatement } :
            (~isApplyingFix /\ handleCodeChange(newCode)) => code' = newCode]_vars

\* a suggestion for a line past the end has been appended to the one
\* statement, the flag is reset and no deferred step is pending
C16_Witness ==
    /\ code = OneStatement \o "\nc;"
    /\ ~isApplyingFix
    /\ Len(fixTimers) = 0

\* C6: while a fix is being applied, from the start of handleApplyFix to its
\* deferred step, an editor change event leaves the code as it is
C6_ChangesIgnored ==
    [][\A newCode \in EditTexts :
          (FixInProgress /\ handleCodeChange(newCode)) => code' = code]_vars

\* the suggestions a step takes out of the App's list
Removed == SuggestionIds(aiSuggestions) \ SuggestionIds(aiSuggestions')

\* the step hides an AIPanel that was shown
PanelCloses == showAIPanel /\ ~showAIPanel'

\* C10: a suggestion leaves the list exactly when it has been applied or the
\* panel has been closed: the deferred step of its application removes it,
\* closing the panel empties the list, and no other step removes a suggestion
C10_RemovedWhenAppliedOrClosed ==
    [][/\ FixTimerFire => Head(fixTimers).suggestion \notin SuggestionIds(aiSuggestions')
       /\ PanelCloses => aiSuggestions' = << >>
       /\ \A id \in Removed :
              \/ FixTimerFire /\ id = Head(fixTimers).suggestion
              \/ PanelCloses]_vars

====
